---- MODULE Spec2Model ----
(***************************************************************************)
(* A model of the transfer engine of nusb (Linux usbfs backend):           *)
(*   - TransferData (platform/linux_usbfs/transfer.rs): the urb control    *)
(*     block, the raw buffer pointer + capacity it holds, fill / take_buf, *)
(*     the five PlatformSubmit implementations, cancel and Drop;           *)
(*   - RequestIsochronousBuffer (transfer/isochronous_buffer.rs);          *)
(*   - errno_to_transfer_error (platform/linux_usbfs/mod.rs);              *)
(*   - the transfer handle, completion future, queue and the usbfs kernel  *)
(*     interface, which live outside the files at hand and are modelled    *)
(*     from the specification.                                             *)
(***************************************************************************)
EXTENDS Integers, Sequences, FiniteSets, TLC

\* ------------------------------------------------------------------ bounds
MaxLen == 2
MaxPackets == 2
MaxAllocs == 3
MaxUnitAllocs == 2
MaxLive == 1
MaxTransfers == 3
MaxSubmits == 3
MaxFutures == 1
MaxHeld == 1
MaxRefs == 2
MaxConfigs == 2
MaxDesc == 4
MaxErrno == 133
WideLen == 258
MaxServices == 2

\* ------------------------------------------------------- program constants
SETUP_PACKET_SIZE == 8
USBDEVFS_URB_TYPE_ISO == 0
USBDEVFS_URB_TYPE_INTERRUPT == 1
USBDEVFS_URB_TYPE_CONTROL == 2
USBDEVFS_URB_TYPE_BULK == 3
I32_MAX == 2147483647
ENOENT == 2
ENODEV == 19
EPIPE == 32
ETIME == 62
ECOMM == 70
EPROTO == 71
EOVERFLOW == 75
EILSEQ == 84
ECONNRESET == 104
ESHUTDOWN == 108
ETIMEDOUT == 110
EXDEV == 18
EIO == 5
EP_OUT == 2
EP_IN == 129
EP_CONTROL == 0
DESCRIPTOR_TYPE_STRING == 3
STANDARD_REQUEST_GET_DESCRIPTOR == 6
DESCRIPTOR_BUF_LEN == 4096

NULL == 0

VARIABLES
    td,          \* [Tid -> TransferData]: the urb control block and capacity
    variant,     \* [Tid -> buffer variant of the last accepted submit]
    given,       \* [Tid -> the allocation handed to the last accepted submit]
    kstate,      \* [Tid -> "none" | "inflight" | "done"]: the urb as the kernel sees it
    kcancel,     \* [Tid -> BOOLEAN]: the kernel was asked to discard the urb
    heap,        \* [Ptr -> allocation]: state, capacity and bytes
    callerBufs,  \* buffer objects the caller holds
    last,        \* outcome of the last operation
    hstate,      \* [Tid -> transfer handle state]
    owner,       \* [Tid -> "none" | "future" | "queue"]
    pending,     \* the queue's pending transfers, oldest first
    cached,      \* the queue's free transfer, 0 when none
    qalive,      \* "none" | "alive" | "dropped": the queue of the endpoint
    subidx,      \* [Tid -> submission index of the queue transfer]
    nsub,        \* number of queue submissions so far
    delivered,   \* submission indices poll_next has delivered, in order
    signalled,   \* submission indices in the order the dispatcher saw them complete
    nfut,        \* number of futures made so far
    halt,        \* "clear" | "halted" | "cleared": the bulk IN endpoint in the device
    refs,        \* the holders of the device and interface backends, and whether they are open
    dev          \* the device handle: platform, cached descriptors, the last call and its result

vars == <<td, variant, given, kstate, kcancel, heap, callerBufs, last,
          hstate, owner, pending, cached, qalive, subidx, nsub, delivered, signalled, nfut, halt, refs, dev>>

hvars == <<hstate, owner, pending, cached, qalive, subidx, nsub, delivered, signalled, nfut>>

tvars == <<td, variant, given, kstate, kcancel, heap, callerBufs, last>>

dvars == <<halt, refs, dev>>

Tid == 1..MaxTransfers
Ptr == 1..MaxAllocs

TransferTypes == {"Control", "Interrupt", "Bulk", "Isochronous"}
Endpoints == {EP_CONTROL, EP_OUT, EP_IN}

\* ep & 0x80 == 0x80
IsIn(ep) == (ep \div 128) % 2 = 1

Abs(x) == IF x < 0 THEN -x ELSE x

RECURSIVE SumLen(_)
SumLen(s) == IF s = <<>> THEN 0 ELSE Head(s).length + SumLen(Tail(s))

\* ------------------------------------------------------------------- heap
\* A byte of memory is tagged by who wrote it: <<origin, packet, index>>.
Cell(origin, k, j) == <<origin, k, j>>
Uninit == Cell("uninit", 0, 0)

NoAlloc == [st |-> "unused", cap |-> 0, bytes |-> <<>>]

LiveAllocs == {p \in Ptr : heap[p].st = "live"}

\* the allocator has an address left
CanAlloc == \E p \in Ptr : heap[p].st = "unused"
FreshPtr == CHOOSE p \in Ptr : heap[p].st = "unused" /\ \A q \in Ptr : q < p => heap[q].st # "unused"

\* Vec::with_capacity(cap) followed by writing `bytes` (Len(bytes) <= cap)
Alloc(h, p, cap, bytes) ==
    [h EXCEPT ![p] = [st |-> "live", cap |-> cap,
                      bytes |-> bytes \o [i \in 1..(cap - Len(bytes)) |-> Uninit]]]

\* dropping the Vec that owns p; freeing what is not live corrupts the heap
Free(h, p) ==
    [h EXCEPT ![p] = [st |-> IF h[p].st = "live" THEN "freed" ELSE "corrupt",
                      cap |-> 0, bytes |-> <<>>]]

\* no double free and no write to freed memory has happened
MemorySafe == \A p \in Ptr : heap[p].st # "corrupt"

\* ---------------------------------------------------------- buffer objects
Obj(kind, ptr, len, cap, requested, npkts) ==
    [kind |-> kind, ptr |-> ptr, len |-> len, cap |-> cap,
     requested |-> requested, npkts |-> npkts]

NoObj == Obj("none", NULL, 0, 0, 0, 0)

\* Vec<u8>: pointer, length, capacity
Vec(ptr, len, cap) == Obj("Vec", ptr, len, cap, 0, 0)

\* ------------------------------------------------------ errno classification
\* the classification without the NOENT arm
errno_to_transfer_error_without_noent(e) ==
    CASE e \in {ENODEV, ESHUTDOWN} -> "Disconnected"
      [] e = EPIPE -> "Stall"
      [] e \in {ECONNRESET, ETIMEDOUT} -> "Cancelled"
      [] e \in {EPROTO, EILSEQ, EOVERFLOW, ECOMM, ETIME} -> "Fault"
      [] OTHER -> "Unknown"

errno_to_transfer_error(e) ==
    CASE e \in {ENODEV, ESHUTDOWN} -> "Disconnected"
      [] e = EPIPE -> "Stall"
      [] e \in {ENOENT, ECONNRESET, ETIMEDOUT} -> "Cancelled"
      [] e \in {EPROTO, EILSEQ, EOVERFLOW, ECOMM, ETIME} -> "Fault"
      [] OTHER -> "Unknown"

\* urb_status without the abs: a negative status is not recognised
urb_status_signed(urb) ==
    IF urb.status = 0 THEN "Ok" ELSE errno_to_transfer_error(urb.status)

urb_status(urb) ==
    IF urb.status = 0 THEN "Ok" ELSE errno_to_transfer_error(Abs(urb.status))

\* ------------------------------------------------------------ TransferData
UrbType(ep_type) ==
    CASE ep_type = "Control" -> USBDEVFS_URB_TYPE_CONTROL
      [] ep_type = "Interrupt" -> USBDEVFS_URB_TYPE_INTERRUPT
      [] ep_type = "Bulk" -> USBDEVFS_URB_TYPE_BULK
      [] ep_type = "Isochronous" -> USBDEVFS_URB_TYPE_ISO

TransferData_new(endpoint, ep_type) ==
    [live |-> TRUE,
     urb |-> [ep_type |-> UrbType(ep_type), endpoint |-> endpoint, status |-> 0,
              buffer |-> NULL, buffer_length |-> 0, actual_length |-> 0,
              number_of_packets |-> 0, iso_frame_desc |-> <<>>],
     capacity |-> 0]

NoTransfer == [TransferData_new(EP_CONTROL, "Control") EXCEPT !.live = FALSE]

\* a setup that writes only the length of a descriptor the urb already had
urb_setup_iso_packet_descriptors_stale(d, number_of_packets, requested) ==
    [d EXCEPT !.urb.number_of_packets = number_of_packets,
              !.urb.iso_frame_desc =
                  [i \in 1..number_of_packets |->
                      IF i <= Len(d.urb.iso_frame_desc)
                      THEN [d.urb.iso_frame_desc[i] EXCEPT !.length = requested]
                      ELSE [length |-> requested, actual_length |-> 0, status |-> 0]]]

urb_setup_iso_packet_descriptors(d, number_of_packets, requested) ==
    [d EXCEPT !.urb.number_of_packets = number_of_packets,
              !.urb.iso_frame_desc =
                  [i \in 1..number_of_packets |->
                      [length |-> requested, actual_length |-> 0, status |-> 0]]]

\* the assertion inside the descriptor loop (requested <= u32::MAX, that is
\* requested / 2 <= i32::MAX): it runs once per descriptor
iso_setup_panics(number_of_packets, requested) ==
    number_of_packets > 0 /\ requested \div 2 > I32_MAX

\* fill: v is moved in and wrapped in ManuallyDrop, so it is not freed here
fill_panics(len) == len > I32_MAX

fill(d, v, len) ==
    IF fill_panics(len)
    THEN [d EXCEPT !.urb.buffer = v.ptr]
    ELSE [d EXCEPT !.urb.buffer = v.ptr,
                   !.urb.buffer_length = len,
                   !.urb.actual_length = 0,
                   !.capacity = v.cap]

\* fill without ManuallyDrop: the vector is freed when fill returns
fill_heap_dropped(h, v) == Free(h, v.ptr)

\* what fill does to the heap with the vector it was given
fill_heap(h, v) == h

\* take_buf that leaves the pointer and the capacity in the control block
take_buf_keeping(d, length) ==
    IF d.urb.buffer = NULL
    THEN [outcome |-> "null", d |-> d, vec |-> NoObj]
    ELSE IF length <= d.capacity
    THEN [outcome |-> "ok", d |-> d, vec |-> Vec(d.urb.buffer, length, d.capacity)]
    ELSE [outcome |-> "length", d |-> d, vec |-> NoObj]

\* take_buf whose second assertion is strict: length < capacity
take_buf_strict(d, length) ==
    IF d.urb.buffer = NULL
    THEN [outcome |-> "null", d |-> d, vec |-> NoObj]
    ELSE LET d2 == [d EXCEPT !.urb.buffer = NULL, !.capacity = 0]
         IN IF length < d.capacity
            THEN [outcome |-> "ok", d |-> d2, vec |-> Vec(d.urb.buffer, length, d.capacity)]
            ELSE [outcome |-> "length", d |-> d2, vec |-> NoObj]

\* the first n bytes a vector over an allocation with these bytes covers: what
\* lies past the allocation is memory of something else
Read(bytes, n) ==
    [i \in 1..n |-> IF i <= Len(bytes) THEN bytes[i] ELSE Cell("beyond", 0, i)]

\* take_buf without the assertion on the length
take_buf_unchecked(d, length) ==
    IF d.urb.buffer = NULL
    THEN [outcome |-> "null", d |-> d, vec |-> NoObj]
    ELSE [outcome |-> "ok", d |-> [d EXCEPT !.urb.buffer = NULL, !.capacity = 0],
          vec |-> Vec(d.urb.buffer, length, d.capacity)]

\* take_buf: outcome "ok", "null" (first assertion) or "length" (second one)
take_buf(d, length) ==
    IF d.urb.buffer = NULL
    THEN [outcome |-> "null", d |-> d, vec |-> NoObj]
    ELSE LET d2 == [d EXCEPT !.urb.buffer = NULL, !.capacity = 0]
         IN IF length <= d.capacity
            THEN [outcome |-> "ok", d |-> d2, vec |-> Vec(d.urb.buffer, length, d.capacity)]
            ELSE [outcome |-> "length", d |-> d2, vec |-> NoObj]

\* RequestIsochronousBuffer::new
RequestIsochronousBuffer_new(ptr, len, number_of_packets) ==
    Obj("RequestIsochronousBuffer", ptr, 0, len * number_of_packets, len, number_of_packets)

\* RequestIsochronousBuffer::into_vec: (Vec of length 0 over the allocation, len)
iso_into_vec(o) ==
    [vec |-> Vec(o.ptr, 0, o.cap), len |-> o.requested * o.npkts]


\* ------------------------------------------------- PlatformSubmit::submit
\* The result of a submit: the outcome ("ok" or "panic"), the control block,
\* the heap, and the calls made to the kernel.
SubmitResult(outcome, d, h, os) == [outcome |-> outcome, d |-> d, heap |-> h, os |-> os]

\* a submit that hands the urb to the kernel twice
fill_and_submit_twice(d, h, v, len) ==
    IF fill_panics(len)
    THEN SubmitResult("panic", fill(d, v, len), fill_heap(h, v), <<>>)
    ELSE SubmitResult("ok", fill(d, v, len), fill_heap(h, v), <<"submit_urb", "submit_urb">>)

\* a submit that fills the urb and never hands it to the kernel
fill_without_submit(d, h, v, len) ==
    IF fill_panics(len)
    THEN SubmitResult("panic", fill(d, v, len), fill_heap(h, v), <<>>)
    ELSE SubmitResult("ok", fill(d, v, len), fill_heap(h, v), <<>>)

\* self.fill(v, len, user_data); self.device.submit_urb(self.urb)
fill_and_submit(d, h, v, len) ==
    IF fill_panics(len)
    THEN SubmitResult("panic", fill(d, v, len), fill_heap(h, v), <<>>)
    ELSE SubmitResult("ok", fill(d, v, len), fill_heap(h, v), <<"submit_urb">>)

\* a failed assertion unwinds and drops the buffer that was moved in
reject(d, h, o) == SubmitResult("panic", d, Free(h, o.ptr), <<>>)

\* PlatformSubmit<Vec<u8>>::submit
submit_vec(d, h, o) ==
    IF IsIn(d.urb.endpoint) THEN reject(d, h, o)
    ELSE fill_and_submit(d, h, Vec(o.ptr, o.len, o.cap), o.len)

\* submit without the direction assertion
submit_request_buffer_any_direction(d, h, o) ==
    IF d.urb.ep_type \notin {USBDEVFS_URB_TYPE_BULK, USBDEVFS_URB_TYPE_INTERRUPT}
    THEN reject(d, h, o)
    ELSE fill_and_submit(d, h, Vec(o.ptr, 0, o.cap), o.requested)

\* PlatformSubmit<RequestBuffer>::submit
submit_request_buffer(d, h, o) ==
    IF ~IsIn(d.urb.endpoint) THEN reject(d, h, o)
    ELSE IF d.urb.ep_type \notin {USBDEVFS_URB_TYPE_BULK, USBDEVFS_URB_TYPE_INTERRUPT}
    THEN reject(d, h, o)
    ELSE fill_and_submit(d, h, Vec(o.ptr, 0, o.cap), o.requested)

\* PlatformSubmit<RequestIsochronousBuffer>::submit
submit_iso(d, h, o) ==
    IF ~IsIn(d.urb.endpoint) THEN reject(d, h, o)
    ELSE IF d.urb.ep_type # USBDEVFS_URB_TYPE_ISO THEN reject(d, h, o)
    ELSE IF iso_setup_panics(o.npkts, o.requested) THEN reject(d, h, o)
    ELSE LET d2 == urb_setup_iso_packet_descriptors(d, o.npkts, o.requested)
             iv == iso_into_vec(o)
         IN fill_and_submit(d2, h, iv.vec, iv.len)

\* ControlIn::setup_packet and ControlOut::setup_packet: the eight bytes of the
\* setup packet; the last two are wLength, low byte first (the request type,
\* the request, wValue and wIndex are left out)
setup_packet(origin, wLength) ==
    [i \in 1..SETUP_PACKET_SIZE |->
        Cell(origin, IF i = 7 THEN wLength % 256 ELSE IF i = 8 THEN wLength \div 256 ELSE 0, i)]
HostCells(n) == [i \in 1..n |-> Cell("host", 0, i)]

\* PlatformSubmit<ControlIn>::submit; p is the address Vec::with_capacity returns
submit_control_in(d, h, p, length) ==
    LET buf_len == SETUP_PACKET_SIZE + length
        h2 == Alloc(h, p, buf_len, setup_packet("setup_in", length))
    IN fill_and_submit(d, h2, Vec(p, SETUP_PACKET_SIZE, buf_len), buf_len)

U16_MAX == 65535

\* a submit that cuts the data length to 16 bits first and carries on with it
submit_control_out_truncating(d, h, p, datalen) ==
    LET n == datalen % (U16_MAX + 1)
        buf_len == SETUP_PACKET_SIZE + n
    IN fill_and_submit(d, Alloc(h, p, buf_len, setup_packet("setup_out", n) \o HostCells(n)),
                       Vec(p, buf_len, buf_len), buf_len)

\* PlatformSubmit<ControlOut>::submit
submit_control_out(d, h, p, datalen) ==
    LET buf_len == SETUP_PACKET_SIZE + datalen
    IN IF datalen > U16_MAX
       THEN SubmitResult("panic", d, Free(Alloc(h, p, buf_len, <<>>), p), <<>>)
       ELSE fill_and_submit(d, Alloc(h, p, buf_len, setup_packet("setup_out", datalen) \o HostCells(datalen)),
                            Vec(p, buf_len, buf_len), buf_len)

\* cancel that asks the kernel twice
cancel_twice(d) == <<"cancel_urb", "cancel_urb">>

\* PlatformTransfer::cancel: the calls made to the kernel
cancel(d) == <<"cancel_urb">>

\* cancel that gives the buffer up
cancel_data_releasing(d) == [d EXCEPT !.urb.buffer = NULL, !.capacity = 0]

\* PlatformTransfer::cancel takes &self: the control block after the call
cancel_data(d) == d

\* ------------------------------------------- PlatformSubmit::take_completed
\* The result of a take_completed: outcome "ok" or a failed assertion, the
\* control block, the heap, the completion status, the buffer object handed
\* to the caller (NoObj when none), its bytes, and the isochronous packets.
TakeResult(outcome, d, h, status, obj, data, pkts) ==
    [outcome |-> outcome, d |-> d, heap |-> h, status |-> status, obj |-> obj,
     data |-> data, pkts |-> pkts]

TakePanic(tb, h, status) == TakeResult(tb.outcome, tb.d, h, status, NoObj, <<>>, <<>>)

\* PlatformSubmit<Vec<u8>>::take_completed and PlatformSubmit<ControlOut>::take_completed
take_completed_out(d, h) ==
    LET status == urb_status(d.urb)
        len == d.urb.actual_length
        tb == take_buf(d, 0)
    IN IF tb.outcome # "ok" THEN TakePanic(tb, h, status)
       ELSE TakeResult("ok", tb.d, h, status,
                       Obj("ResponseBuffer", tb.vec.ptr, len, tb.vec.cap, 0, 0), <<>>, <<>>)

\* take_completed that keeps the buffer of a failed transfer
take_completed_in_ok_only(d, h) ==
    LET status == urb_status(d.urb)
        len == d.urb.actual_length
        tb == take_buf(d, len)
    IN IF tb.outcome # "ok" THEN TakePanic(tb, h, status)
       ELSE IF status # "Ok"
       THEN TakeResult("ok", tb.d, Free(h, tb.vec.ptr), status, NoObj, <<>>, <<>>)
       ELSE TakeResult("ok", tb.d, h, status, tb.vec,
                       Read(h[tb.vec.ptr].bytes, len), <<>>)

\* PlatformSubmit<RequestBuffer>::take_completed
take_completed_in(d, h) ==
    LET status == urb_status(d.urb)
        len == d.urb.actual_length
        tb == take_buf(d, len)
    IN IF tb.outcome # "ok" THEN TakePanic(tb, h, status)
       ELSE TakeResult("ok", tb.d, h, status, tb.vec,
                       Read(h[tb.vec.ptr].bytes, len), <<>>)

\* the loop without the status test: every packet is pushed
RECURSIVE iso_loop_all(_, _, _, _)
iso_loop_all(descs, buffer, data_start, out) ==
    IF descs = <<>> THEN out
    ELSE LET desc == Head(descs)
             stop == data_start + desc.actual_length
         IN IF stop > Len(buffer) THEN <<"panic">>
            ELSE iso_loop_all(Tail(descs), buffer, data_start + desc.length,
                              Append(out, SubSeq(buffer, data_start + 1, stop)))

\* the loop with data_start advanced past the pushed packets only, and by
\* what they hold
RECURSIVE iso_loop_packed(_, _, _, _)
iso_loop_packed(descs, buffer, data_start, out) ==
    IF descs = <<>> THEN out
    ELSE LET desc == Head(descs)
             stop == data_start + desc.actual_length
         IN IF desc.status = 0 /\ stop > Len(buffer) THEN <<"panic">>
            ELSE iso_loop_packed(Tail(descs), buffer,
                                 IF desc.status = 0 THEN stop ELSE data_start,
                                 IF desc.status = 0
                                 THEN Append(out, SubSeq(buffer, data_start + 1, stop))
                                 ELSE out)

\* the loop over the packet descriptors: out is the data built so far;
\* <<"panic">> when a range lies outside the buffer
RECURSIVE iso_loop(_, _, _, _)
iso_loop(descs, buffer, data_start, out) ==
    IF descs = <<>> THEN out
    ELSE LET desc == Head(descs)
             stop == data_start + desc.actual_length
         IN IF desc.status = 0 /\ stop > Len(buffer) THEN <<"panic">>
            ELSE iso_loop(Tail(descs), buffer, data_start + desc.length,
                          IF desc.status = 0
                          THEN Append(out, SubSeq(buffer, data_start + 1, stop))
                          ELSE out)

\* PlatformSubmit<RequestIsochronousBuffer>::take_completed: the buffer is a
\* local of the function and is freed when it returns or unwinds
take_completed_iso(d, h) ==
    LET status == urb_status(d.urb)
        len == d.urb.buffer_length
        tb == take_buf(d, len)
    IN IF tb.outcome # "ok" THEN TakePanic(tb, h, status)
       ELSE LET buffer == SubSeq(h[tb.vec.ptr].bytes, 1, len)
                data == iso_loop(tb.d.urb.iso_frame_desc, buffer, 0, <<>>)
                h2 == Free(h, tb.vec.ptr)
            IN IF data = <<"panic">>
               THEN TakeResult("range", tb.d, h2, status, NoObj, <<>>, <<>>)
               ELSE TakeResult("ok", tb.d, h2, status, NoObj, <<>>, data)

\* a truncation to the data length instead of the splice: the front is kept
splice_setup_truncating(bytes, veclen) == bytes

\* data.splice(0..SETUP_PACKET_SIZE, []): the tail moves to the front
splice_setup(bytes, veclen) ==
    SubSeq(Read(bytes, veclen), SETUP_PACKET_SIZE + 1, veclen)
        \o [i \in 1..(Len(bytes) - veclen + SETUP_PACKET_SIZE) |-> Uninit]

\* PlatformSubmit<ControlIn>::take_completed
take_completed_control_in(d, h) ==
    LET status == urb_status(d.urb)
        len == d.urb.actual_length
        tb == take_buf(d, SETUP_PACKET_SIZE + len)
    IN IF tb.outcome # "ok" THEN TakePanic(tb, h, status)
       ELSE LET p == tb.vec.ptr
                bytes == splice_setup(h[p].bytes, tb.vec.len)
                v == Vec(p, tb.vec.len - SETUP_PACKET_SIZE, tb.vec.cap)
            IN TakeResult("ok", tb.d, [h EXCEPT ![p].bytes = bytes], status, v,
                          Read(bytes, v.len), <<>>)

\* impl Drop for TransferData: the heap after the drop and whether the free is sound
drop_frees(d) == d.urb.buffer # NULL

drop_heap(d, h) == IF drop_frees(d) THEN Free(h, d.urb.buffer) ELSE h


\* ------------------------------------------------------------ the kernel
\* Statuses the kernel reports in urb.status (negative or positive errno).
KernelStatuses == {0, -ENOENT, EPIPE}
PacketStatuses == {0, -EXDEV}

\* What the kernel may report for urb d: a status, an actual length and the
\* per-packet results. It never reports more than the length it was given.
KernelOutcomes(d, h) ==
    LET u == d.urb
        plen == IF u.iso_frame_desc = <<>> THEN 0 ELSE u.iso_frame_desc[1].length
    IN IF u.ep_type = USBDEVFS_URB_TYPE_ISO
       THEN { [status |-> s, actual |-> 0, iso |-> r] :
                 s \in KernelStatuses,
                 r \in [1..u.number_of_packets ->
                          { [status |-> ps, actual_length |-> a] :
                              ps \in PacketStatuses, a \in 0..plen }] }
       ELSE IF u.ep_type = USBDEVFS_URB_TYPE_CONTROL
       THEN IF u.buffer_length >= SETUP_PACKET_SIZE
            THEN { [status |-> s, actual |-> a, iso |-> <<>>] :
                      s \in KernelStatuses, a \in 0..(u.buffer_length - SETUP_PACKET_SIZE) }
            ELSE { [status |-> s, actual |-> 0, iso |-> <<>>] : s \in KernelStatuses \ {0} }
       ELSE { [status |-> s, actual |-> a, iso |-> <<>>] :
                 s \in KernelStatuses, a \in 0..u.buffer_length }

\* the bytes of the buffer after the kernel has written its data
KernelBytes(d, bytes, r) ==
    LET u == d.urb
    IN IF u.ep_type = USBDEVFS_URB_TYPE_ISO
       THEN [j \in 1..Len(bytes) |->
               IF \E k \in 1..u.number_of_packets :
                     LET off == SumLen(SubSeq(u.iso_frame_desc, 1, k - 1))
                     IN j > off /\ j <= off + r.iso[k].actual_length
               THEN LET k == CHOOSE k \in 1..u.number_of_packets :
                               LET off == SumLen(SubSeq(u.iso_frame_desc, 1, k - 1))
                               IN j > off /\ j <= off + r.iso[k].actual_length
                    IN Cell("dev", k, j - SumLen(SubSeq(u.iso_frame_desc, 1, k - 1)))
               ELSE bytes[j]]
       ELSE IF u.ep_type = USBDEVFS_URB_TYPE_CONTROL
       THEN IF Len(bytes) > 0 /\ bytes[1][1] = "setup_in"
            THEN [j \in 1..Len(bytes) |->
                    IF j > SETUP_PACKET_SIZE /\ j <= SETUP_PACKET_SIZE + r.actual
                    THEN Cell("dev", 0, j - SETUP_PACKET_SIZE) ELSE bytes[j]]
            ELSE bytes
       ELSE IF IsIn(u.endpoint)
       THEN [j \in 1..Len(bytes) |-> IF j <= r.actual THEN Cell("dev", 0, j) ELSE bytes[j]]
       ELSE bytes

\* the control block after the kernel has completed it with outcome r
kernel_complete_urb(d, r) ==
    [d EXCEPT !.urb.status = r.status,
              !.urb.actual_length =
                  IF d.urb.ep_type = USBDEVFS_URB_TYPE_ISO
                  THEN SumLen([i \in 1..Len(r.iso) |-> [length |-> r.iso[i].actual_length]])
                  ELSE r.actual,
              !.urb.iso_frame_desc =
                  [i \in 1..Len(d.urb.iso_frame_desc) |->
                      IF d.urb.ep_type = USBDEVFS_URB_TYPE_ISO
                      THEN [length |-> d.urb.iso_frame_desc[i].length,
                            actual_length |-> r.iso[i].actual_length,
                            status |-> r.iso[i].status]
                      ELSE d.urb.iso_frame_desc[i]]]

\* the heap after the kernel has written into the urb's buffer
kernel_complete_heap(d, h, r) ==
    LET p == d.urb.buffer
    IN IF p = NULL THEN h
       ELSE IF h[p].st # "live" THEN [h EXCEPT ![p].st = "corrupt"]
       ELSE [h EXCEPT ![p].bytes = KernelBytes(d, h[p].bytes, r)]


\* ------------------------------------------------------- operation results
Outcome(op, t, outcome, status, os, obj, data, pkts) ==
    [op |-> op, t |-> t, outcome |-> outcome, status |-> status, os |-> os,
     obj |-> obj, data |-> data, pkts |-> pkts]

NoOutcome == Outcome("none", 0, "ok", "Ok", <<>>, NoObj, <<>>, <<>>)

Simple(op, t) == Outcome(op, t, "ok", "Ok", <<>>, NoObj, <<>>, <<>>)

\* Idle: the control block holds no buffer
Idle(t) == td[t].live /\ td[t].urb.buffer = NULL

\* ------------------------------------------ the caller's buffer objects
\* Vec::with_capacity(cap) filled with len bytes
NewVec(len, cap) ==
    /\ CanAlloc
    /\ heap' = Alloc(heap, FreshPtr, cap, HostCells(len))
    /\ callerBufs' = callerBufs \cup {Vec(FreshPtr, len, cap)}
    /\ last' = Simple("new_vec", 0)
    /\ UNCHANGED <<td, variant, given, kstate, kcancel>>

\* RequestBuffer::new(len)
NewRequestBuffer(len) ==
    /\ CanAlloc
    /\ heap' = Alloc(heap, FreshPtr, len, <<>>)
    /\ callerBufs' = callerBufs \cup {Obj("RequestBuffer", FreshPtr, 0, len, len, 0)}
    /\ last' = Simple("new_request_buffer", 0)
    /\ UNCHANGED <<td, variant, given, kstate, kcancel>>

\* RequestIsochronousBuffer::new(len, number_of_packets)
NewIsoBuffer(len, n) ==
    /\ CanAlloc
    /\ heap' = Alloc(heap, FreshPtr, len * n, <<>>)
    /\ callerBufs' = callerBufs \cup {RequestIsochronousBuffer_new(FreshPtr, len, n)}
    /\ last' = Simple("new_iso_buffer", 0)
    /\ UNCHANGED <<td, variant, given, kstate, kcancel>>

\* ResponseBuffer::reuse / RequestBuffer::reuse on a returned allocation that
\* is large enough: the allocation is kept, the length is reset
CallerReuse(o, kind, len) ==
    /\ o \in callerBufs /\ o.kind \in {"Vec", "ResponseBuffer"}
    /\ len <= o.cap
    /\ callerBufs' = (callerBufs \ {o}) \cup
          {IF kind = "Vec" THEN Vec(o.ptr, len, o.cap)
           ELSE Obj("RequestBuffer", o.ptr, 0, o.cap, len, 0)}
    /\ heap' = [heap EXCEPT ![o.ptr].bytes =
                   (IF kind = "Vec" THEN HostCells(len) ELSE <<>>)
                       \o [i \in 1..(o.cap - (IF kind = "Vec" THEN len ELSE 0)) |-> Uninit]]
    /\ last' = Simple("reuse", 0)
    /\ UNCHANGED <<td, variant, given, kstate, kcancel>>

\* the caller drops a buffer object (impl Drop for RequestIsochronousBuffer, Vec)
DropBuf(o) ==
    /\ o \in callerBufs
    /\ callerBufs' = callerBufs \ {o}
    /\ heap' = Free(heap, o.ptr)
    /\ last' = Simple("drop_buf", 0)
    /\ UNCHANGED <<td, variant, given, kstate, kcancel>>

\* ------------------------------------------------ the transfer primitive
\* TransferData::new
MakeTransfer(t, ep, ty) ==
    /\ ~td[t].live
    /\ td' = [td EXCEPT ![t] = TransferData_new(ep, ty)]
    /\ variant' = [variant EXCEPT ![t] = "none"]
    /\ given' = [given EXCEPT ![t] = NoObj]
    /\ last' = Simple("new", t)
    /\ UNCHANGED <<kstate, kcancel, heap, callerBufs>>

\* the effect of a PlatformSubmit::submit whose result is r: the buffer object
\* o (NoObj for a control request) is moved out of the caller's hands
ApplySubmit(t, v, o, r) ==
    /\ td' = [td EXCEPT ![t] = r.d]
    /\ heap' = r.heap
    /\ callerBufs' = callerBufs \ {o}
    /\ kstate' = [kstate EXCEPT ![t] = IF r.os = <<>> THEN @ ELSE "inflight"]
    /\ kcancel' = [kcancel EXCEPT ![t] = IF r.os = <<>> THEN @ ELSE FALSE]
    /\ variant' = [variant EXCEPT ![t] = IF r.outcome = "ok" THEN v ELSE @]
    /\ given' = [given EXCEPT ![t] =
                    IF r.outcome = "ok"
                    THEN [o EXCEPT !.ptr = r.d.urb.buffer, !.cap = r.heap[r.d.urb.buffer].cap,
                                   !.kind = v]
                    ELSE @]
    /\ last' = Outcome("submit", t, r.outcome, "Ok", r.os, [o EXCEPT !.kind = v], <<>>, <<>>)

SubmitVec(t, o) ==
    /\ Idle(t) /\ kstate[t] = "none"
    /\ o \in callerBufs /\ o.kind = "Vec"
    /\ ApplySubmit(t, "OutBytes", o, submit_vec(td[t], heap, o))

SubmitRequestBuffer(t, o) ==
    /\ Idle(t) /\ kstate[t] = "none"
    /\ o \in callerBufs /\ o.kind = "RequestBuffer"
    /\ ApplySubmit(t, "RequestBuffer", o, submit_request_buffer(td[t], heap, o))

SubmitIso(t, o) ==
    /\ Idle(t) /\ kstate[t] = "none"
    /\ o \in callerBufs /\ o.kind = "RequestIsochronousBuffer"
    /\ ApplySubmit(t, "IsochronousRequest", o, submit_iso(td[t], heap, o))

SubmitControlIn(t, length) ==
    /\ Idle(t) /\ kstate[t] = "none"
    /\ CanAlloc
    /\ ApplySubmit(t, "ControlIn", [NoObj EXCEPT !.requested = length],
                   submit_control_in(td[t], heap, FreshPtr, length))

SubmitControlOut(t, datalen) ==
    /\ Idle(t) /\ kstate[t] = "none"
    /\ CanAlloc
    /\ ApplySubmit(t, "ControlOut", [NoObj EXCEPT !.len = datalen],
                   submit_control_out(td[t], heap, FreshPtr, datalen))

\* the kernel completes the urb and the completion is reaped
KernelComplete(t, r) ==
    /\ kstate[t] = "inflight"
    /\ r \in KernelOutcomes(td[t], heap)
    /\ td' = [td EXCEPT ![t] = kernel_complete_urb(td[t], r)]
    /\ heap' = kernel_complete_heap(td[t], heap, r)
    /\ kstate' = [kstate EXCEPT ![t] = "none"]
    /\ last' = Simple("complete", t)
    /\ UNCHANGED <<variant, given, kcancel, callerBufs>>

\* take_completed of the variant that was submitted
take_completed(v, d, h) ==
    CASE v \in {"OutBytes", "ControlOut"} -> take_completed_out(d, h)
      [] v = "RequestBuffer" -> take_completed_in(d, h)
      [] v = "IsochronousRequest" -> take_completed_iso(d, h)
      [] v = "ControlIn" -> take_completed_control_in(d, h)

ApplyTake(t, r) ==
    /\ td' = [td EXCEPT ![t] = r.d]
    /\ heap' = r.heap
    /\ callerBufs' = IF r.obj = NoObj THEN callerBufs ELSE callerBufs \cup {r.obj}
    /\ last' = Outcome("take_completed", t, r.outcome, r.status, <<>>, r.obj, r.data, r.pkts)

TakeCompleted(t) ==
    /\ td[t].live /\ variant[t] # "none" /\ kstate[t] = "none"
    /\ ApplyTake(t, take_completed(variant[t], td[t], heap))
    /\ UNCHANGED <<variant, given, kstate, kcancel>>

\* impl Drop for TransferData
DropTransfer(t) ==
    /\ td[t].live /\ kstate[t] = "none"
    /\ heap' = drop_heap(td[t], heap)
    /\ td' = [td EXCEPT ![t] = NoTransfer]
    /\ last' = Simple("drop", t)
    /\ UNCHANGED <<variant, given, kstate, kcancel, callerBufs>>

\* no device was opened yet: nothing refers to a backend. The counts are the
\* Device clones, the Interface clones, the queues, and the transfers made on the
\* interface (xf) and on the device's control endpoint (ct) that are in flight
\* in a future, completed in a future, or in flight and abandoned
NoRefs ==
    [opened |-> FALSE, open |-> FALSE, claimed |-> FALSE, devices |-> 0, interfaces |-> 0,
     queues |-> 0, xfPending |-> 0, xfCompleted |-> 0, xfAbandoned |-> 0,
     ctPending |-> 0, ctCompleted |-> 0, ctAbandoned |-> 0]
Ok(val) == [ok |-> TRUE, err |-> "none", code |-> 0, val |-> val]
Err(kind, code) == [ok |-> FALSE, err |-> kind, code |-> code, val |-> <<>>]

NoDevice ==
    [opened |-> FALSE, platform |-> "none", driver |-> TRUE, configs |-> <<>>, active |-> 0,
     op |-> "none", backend |-> Ok(<<>>), request |-> <<>>, result |-> Ok(<<>>)]

\* --------------------------------------- the transfer primitive on its own
InitCommon ==
    /\ td = [t \in Tid |-> NoTransfer]
    /\ variant = [t \in Tid |-> "none"]
    /\ given = [t \in Tid |-> NoObj]
    /\ kstate = [t \in Tid |-> "none"]
    /\ kcancel = [t \in Tid |-> FALSE]
    /\ heap = [p \in Ptr |-> NoAlloc]
    /\ callerBufs = {}
    /\ last = NoOutcome
    /\ hstate = [t \in Tid |-> "none"]
    /\ owner = [t \in Tid |-> "none"]
    /\ pending = <<>>
    /\ cached = 0
    /\ qalive = "none"
    /\ subidx = [t \in Tid |-> 0]
    /\ nsub = 0
    /\ delivered = <<>>
    /\ signalled = <<>>
    /\ nfut = 0
    /\ halt = "clear"
    /\ refs = NoRefs
    /\ dev = NoDevice

Unit == 1

\* the bounds of the stand-alone transfer: buffers allocated so far, live buffers
UnitCanAlloc ==
    /\ Cardinality({p \in Ptr : heap[p].st # "unused"}) < MaxUnitAllocs
    /\ Cardinality(LiveAllocs) < MaxLive

NextTransfer ==
    \/ \E ep \in Endpoints, ty \in TransferTypes :
          /\ (ep = EP_CONTROL) = (ty = "Control")
          /\ MakeTransfer(Unit, ep, ty) /\ UNCHANGED <<hvars, dvars>>
    \/ \E len \in 0..MaxLen : \E cap \in len..MaxLen :
          UnitCanAlloc /\ NewVec(len, cap) /\ UNCHANGED <<hvars, dvars>>
    \/ \E len \in 0..MaxLen : UnitCanAlloc /\ NewRequestBuffer(len) /\ UNCHANGED <<hvars, dvars>>
    \/ \E len \in 0..MaxLen, n \in 0..MaxPackets :
          UnitCanAlloc /\ NewIsoBuffer(len, n) /\ UNCHANGED <<hvars, dvars>>
    \/ \E o \in callerBufs, kind \in {"Vec", "RequestBuffer"}, len \in 0..MaxLen :
          CallerReuse(o, kind, len) /\ UNCHANGED <<hvars, dvars>>
    \/ \E o \in callerBufs : DropBuf(o) /\ UNCHANGED <<hvars, dvars>>
    \/ \E o \in callerBufs : SubmitVec(Unit, o) /\ UNCHANGED <<hvars, dvars>>
    \/ \E o \in callerBufs : SubmitRequestBuffer(Unit, o) /\ UNCHANGED <<hvars, dvars>>
    \/ \E o \in callerBufs : SubmitIso(Unit, o) /\ UNCHANGED <<hvars, dvars>>
    \/ \E length \in 0..MaxLen : UnitCanAlloc /\ SubmitControlIn(Unit, length) /\ UNCHANGED <<hvars, dvars>>
    \/ \E datalen \in 0..MaxLen : UnitCanAlloc /\ SubmitControlOut(Unit, datalen) /\ UNCHANGED <<hvars, dvars>>
    \/ \E r \in KernelOutcomes(td[Unit], heap) : KernelComplete(Unit, r) /\ UNCHANGED <<hvars, dvars>>
    \/ TakeCompleted(Unit) /\ UNCHANGED <<hvars, dvars>>
    \/ DropTransfer(Unit) /\ UNCHANGED <<hvars, dvars>>

SpecTransfer == InitCommon /\ [][NextTransfer]_vars


\* ------------------------------ the transfer primitive and reported lengths
\* What a kernel that may report one byte more than it was given writes in the
\* urb: the defensive assertions of take_buf are about such reports.
OverOutcomes(d, h) ==
    LET u == d.urb
        plen == IF u.iso_frame_desc = <<>> THEN 0 ELSE u.iso_frame_desc[1].length
    IN IF u.ep_type = USBDEVFS_URB_TYPE_ISO
       THEN { [status |-> 0, actual |-> 0, iso |-> r] :
                 r \in [1..u.number_of_packets ->
                          { [status |-> ps, actual_length |-> a] :
                              ps \in PacketStatuses, a \in 0..(plen + 1) }] }
       ELSE IF u.ep_type = USBDEVFS_URB_TYPE_CONTROL
       THEN IF u.buffer_length >= SETUP_PACKET_SIZE
            THEN { [status |-> s, actual |-> a, iso |-> <<>>] :
                      s \in KernelStatuses, a \in 0..(u.buffer_length - SETUP_PACKET_SIZE + 1) }
            ELSE { [status |-> s, actual |-> 0, iso |-> <<>>] : s \in KernelStatuses \ {0} }
       ELSE { [status |-> s, actual |-> a, iso |-> <<>>] :
                 s \in KernelStatuses, a \in 0..(u.buffer_length + 1) }

\* the kernel completes the urb, with whatever length, and the completion is reaped
KernelCompleteOver(t, r) ==
    /\ kstate[t] = "inflight"
    /\ r \in OverOutcomes(td[t], heap)
    /\ td' = [td EXCEPT ![t] = kernel_complete_urb(td[t], r)]
    /\ heap' = kernel_complete_heap(td[t], heap, r)
    /\ kstate' = [kstate EXCEPT ![t] = "none"]
    /\ last' = Simple("complete", t)
    /\ UNCHANGED <<variant, given, kcancel, callerBufs>>

NextLengths ==
    \/ \E ep \in Endpoints, ty \in TransferTypes :
          /\ (ep = EP_CONTROL) = (ty = "Control")
          /\ MakeTransfer(Unit, ep, ty) /\ UNCHANGED <<hvars, dvars>>
    \/ \E len \in 0..MaxLen : \E cap \in len..MaxLen :
          UnitCanAlloc /\ NewVec(len, cap) /\ UNCHANGED <<hvars, dvars>>
    \/ \E len \in 0..MaxLen : UnitCanAlloc /\ NewRequestBuffer(len) /\ UNCHANGED <<hvars, dvars>>
    \/ \E len \in 0..MaxLen, n \in 0..MaxPackets :
          UnitCanAlloc /\ NewIsoBuffer(len, n) /\ UNCHANGED <<hvars, dvars>>
    \/ \E o \in callerBufs, kind \in {"Vec", "RequestBuffer"}, len \in 0..MaxLen :
          CallerReuse(o, kind, len) /\ UNCHANGED <<hvars, dvars>>
    \/ \E o \in callerBufs : DropBuf(o) /\ UNCHANGED <<hvars, dvars>>
    \/ \E o \in callerBufs : SubmitVec(Unit, o) /\ UNCHANGED <<hvars, dvars>>
    \/ \E o \in callerBufs : SubmitRequestBuffer(Unit, o) /\ UNCHANGED <<hvars, dvars>>
    \/ \E o \in callerBufs : SubmitIso(Unit, o) /\ UNCHANGED <<hvars, dvars>>
    \/ \E length \in 0..MaxLen : UnitCanAlloc /\ SubmitControlIn(Unit, length) /\ UNCHANGED <<hvars, dvars>>
    \/ \E datalen \in 0..MaxLen : UnitCanAlloc /\ SubmitControlOut(Unit, datalen) /\ UNCHANGED <<hvars, dvars>>
    \/ \E r \in OverOutcomes(td[Unit], heap) : KernelCompleteOver(Unit, r) /\ UNCHANGED <<hvars, dvars>>
    \/ TakeCompleted(Unit) /\ UNCHANGED <<hvars, dvars>>
    \/ DropTransfer(Unit) /\ UNCHANGED <<hvars, dvars>>

SpecLengths == InitCommon /\ [][NextLengths]_vars


\* ----------------------------------------- the status of a completed urb
\* the values of urb.status: 0 or an errno, with either sign
UrbStatuses == (-MaxErrno)..MaxErrno

\* a transfer whose urb was completed with any of the statuses
InitStatus ==
    /\ td \in { [t \in Tid |->
                   IF t = Unit
                   THEN [TransferData_new(EP_IN, "Bulk") EXCEPT !.urb.status = s]
                   ELSE NoTransfer] : s \in UrbStatuses }
    /\ variant = [t \in Tid |-> "none"]
    /\ given = [t \in Tid |-> NoObj]
    /\ kstate = [t \in Tid |-> "none"]
    /\ kcancel = [t \in Tid |-> FALSE]
    /\ heap = [p \in Ptr |-> NoAlloc]
    /\ callerBufs = {}
    /\ last = NoOutcome
    /\ hstate = [t \in Tid |-> "none"]
    /\ owner = [t \in Tid |-> "none"]
    /\ pending = <<>>
    /\ cached = 0
    /\ qalive = "none"
    /\ subidx = [t \in Tid |-> 0]
    /\ nsub = 0
    /\ delivered = <<>>
    /\ signalled = <<>>
    /\ nfut = 0
    /\ halt = "clear"
    /\ refs = NoRefs
    /\ dev = NoDevice

\* urb_status(self.urb_mut()), the first statement of every take_completed
UrbStatus(t) ==
    /\ td[t].live
    /\ last' = Outcome("urb_status", t, "ok", urb_status(td[t].urb), <<>>, NoObj, <<>>, <<>>)
    /\ UNCHANGED <<td, variant, given, kstate, kcancel, heap, callerBufs, hvars, dvars>>

NextStatus == UrbStatus(Unit)

SpecStatus == InitStatus /\ [][NextStatus]_vars


\* ------------------------------------------- the control endpoint, on its own
\* the lengths of the control requests: short ones, one that needs both bytes
\* of wLength, and for ControlOut one that does not fit in them
ControlInLens == (0..MaxLen) \cup {WideLen}
ControlOutLens == (0..MaxLen) \cup {WideLen, U16_MAX + 1}

\* what the kernel reports for a control urb: no data or all of it
ControlOutcomes(d, h) ==
    { r \in KernelOutcomes(d, h) : r.actual \in {0, d.urb.buffer_length - SETUP_PACKET_SIZE} }

NextControl ==
    \/ MakeTransfer(Unit, EP_CONTROL, "Control") /\ UNCHANGED <<hvars, dvars>>
    \/ \E length \in ControlInLens :
          UnitCanAlloc /\ SubmitControlIn(Unit, length) /\ UNCHANGED <<hvars, dvars>>
    \/ \E datalen \in ControlOutLens :
          UnitCanAlloc /\ SubmitControlOut(Unit, datalen) /\ UNCHANGED <<hvars, dvars>>
    \/ \E r \in ControlOutcomes(td[Unit], heap) : KernelComplete(Unit, r) /\ UNCHANGED <<hvars, dvars>>
    \/ TakeCompleted(Unit) /\ UNCHANGED <<hvars, dvars>>
    \/ \E o \in callerBufs : DropBuf(o) /\ UNCHANGED <<hvars, dvars>>
    \/ DropTransfer(Unit) /\ UNCHANGED <<hvars, dvars>>

SpecControl == InitCommon /\ [][NextControl]_vars

\* ------------------------------------------- one bulk IN endpoint, on its own
\* The endpoint of the bulk IN queue and of the loose bulk IN transfers
QueueEndpoint == EP_IN
QueueType == "Bulk"

\* the statuses the kernel ends a bulk urb with: every kind of the taxonomy
BulkStatuses ==
    {0, -ENOENT, -ECONNRESET, -ETIMEDOUT, -ESHUTDOWN, -ENODEV, -EPIPE, EPIPE, -EPROTO, -EIO}

\* what the kernel may report for the bulk urb d: ENOENT only for an urb it was
\* asked to discard, and nothing but a stall while the endpoint is halted
BulkOutcomes(d, cancelled, halted) ==
    { r \in [status : BulkStatuses, actual : 0..d.urb.buffer_length, iso : {<<>>}] :
         /\ r.status = -ENOENT => cancelled
         /\ halted => Abs(r.status) = EPIPE
         /\ Abs(r.status) = EPIPE => r.actual = 0 }

\* the kernel completes the urb, and the completion is reaped; a stall halts
\* the endpoint
BulkComplete(t, r) ==
    /\ kstate[t] = "inflight"
    /\ r \in BulkOutcomes(td[t], kcancel[t], halt = "halted")
    /\ td' = [td EXCEPT ![t] = kernel_complete_urb(td[t], r)]
    /\ heap' = kernel_complete_heap(td[t], heap, r)
    /\ kstate' = [kstate EXCEPT ![t] = "none"]
    /\ halt' = IF Abs(r.status) = EPIPE THEN "halted" ELSE halt
    /\ last' = Simple("complete", t)
    /\ UNCHANGED <<variant, given, kcancel, callerBufs>>

\* PlatformTransfer::cancel on a transfer in flight
CancelTransfer(t) ==
    /\ td[t].live /\ kstate[t] = "inflight"
    /\ td' = [td EXCEPT ![t] = cancel_data(td[t])]
    /\ kcancel' = [kcancel EXCEPT ![t] = TRUE]
    /\ last' = Outcome("cancel", t, "ok", "Ok", cancel(td[t]), NoObj, <<>>, <<>>)
    /\ UNCHANGED <<variant, given, kstate, heap, callerBufs>>

\* Interface::clear_halt(endpoint), with no transfer pending on the endpoint
ClearHalt ==
    /\ \A t \in Tid : kstate[t] = "none"
    /\ halt = "halted"
    /\ halt' = "cleared"
    /\ last' = Simple("clear_halt", 0)
    /\ UNCHANGED <<td, variant, given, kstate, kcancel, heap, callerBufs>>

NextBulkIn ==
    \/ MakeTransfer(Unit, QueueEndpoint, QueueType) /\ UNCHANGED <<hvars, dvars>>
    \/ \E len \in 0..MaxLen : UnitCanAlloc /\ NewRequestBuffer(len) /\ UNCHANGED <<hvars, dvars>>
    \/ \E o \in callerBufs, len \in 0..MaxLen :
          CallerReuse(o, "RequestBuffer", len) /\ UNCHANGED <<hvars, dvars>>
    \/ \E o \in callerBufs : DropBuf(o) /\ UNCHANGED <<hvars, dvars>>
    \/ \E o \in callerBufs : SubmitRequestBuffer(Unit, o) /\ UNCHANGED <<hvars, dvars>>
    \/ CancelTransfer(Unit) /\ UNCHANGED <<hvars, dvars>>
    \/ \E r \in BulkOutcomes(td[Unit], kcancel[Unit], halt = "halted") :
          BulkComplete(Unit, r) /\ UNCHANGED <<hvars, refs, dev>>
    \/ TakeCompleted(Unit) /\ UNCHANGED <<hvars, dvars>>
    \/ DropTransfer(Unit) /\ UNCHANGED <<hvars, dvars>>
    \/ ClearHalt /\ UNCHANGED <<hvars, refs, dev>>

SpecBulkIn == InitCommon /\ [][NextBulkIn]_vars

\* ------------------------------------ transfer handles, futures and the queue

\* Interface::make_transfer: the slot of the next TransferData
CanMake == \E t \in Tid : ~td[t].live
FreeTid == CHOOSE t \in Tid : ~td[t].live /\ \A u \in Tid : u < t => td[u].live

\* what the kernel reports for the transfers of the queue and of the futures:
\* all the data, or ENOENT for an urb it was asked to discard
HandleOutcomes(t) ==
    { r \in KernelOutcomes(td[t], heap) :
         \/ r.status = 0 /\ r.actual = td[t].urb.buffer_length
         \/ r.status = -ENOENT /\ kcancel[t] /\ r.actual = 0 }

\* the heap after the handles of the transfers in S are dropped: a transfer
\* that is not pending is freed at once (impl Drop for TransferData)
drop_handles_heap(S, h) ==
    [p \in Ptr |->
        IF \E t \in S : hstate[t] # "PENDING" /\ drop_frees(td[t]) /\ td[t].urb.buffer = p
        THEN Free(h, p)[p] ELSE h[p]]

\* the calls to the kernel when the handles of the transfers of s are dropped or
\* cancelled, last submitted first
RECURSIVE cancel_each(_, _)
cancel_each(s, onlyPending) ==
    IF s = <<>> THEN <<>>
    ELSE LET t == s[Len(s)]
         IN (IF onlyPending /\ hstate[t] # "PENDING" THEN <<>> ELSE cancel(td[t]))
            \o cancel_each(SubSeq(s, 1, Len(s) - 1), onlyPending)

\* TransferHandle::submit on a new or idle transfer t with control block d
HandleSubmit(t, d, o, own, op) ==
    LET r == submit_request_buffer(d, heap, o)
    IN /\ td' = [td EXCEPT ![t] = r.d]
       /\ heap' = r.heap
       /\ callerBufs' = callerBufs \ {o}
       /\ kstate' = [kstate EXCEPT ![t] = IF r.os = <<>> THEN @ ELSE "inflight"]
       /\ kcancel' = [kcancel EXCEPT ![t] = FALSE]
       /\ variant' = [variant EXCEPT ![t] = "RequestBuffer"]
       /\ given' = [given EXCEPT ![t] = [o EXCEPT !.kind = "RequestBuffer"]]
       /\ hstate' = [hstate EXCEPT ![t] = "PENDING"]
       /\ owner' = [owner EXCEPT ![t] = own]
       /\ last' = Outcome(op, t, r.outcome, "Ok", r.os, [o EXCEPT !.kind = "RequestBuffer"],
                          <<>>, <<>>)

\* Interface::bulk_in_queue
QueueNew ==
    /\ qalive = "none"
    /\ qalive' = "alive"
    /\ last' = Simple("queue_new", 0)
    /\ UNCHANGED <<td, variant, given, kstate, kcancel, heap, callerBufs, hstate, owner,
                   pending, cached, subidx, nsub, delivered, signalled, nfut>>

\* Queue::submit: the cached transfer or a new one
QueueSubmit(o) ==
    /\ qalive = "alive" /\ nsub < MaxSubmits
    /\ o \in callerBufs /\ o.kind = "RequestBuffer"
    /\ cached # 0 \/ CanMake
    /\ LET t == IF cached # 0 THEN cached ELSE FreeTid
           d == IF cached # 0 THEN td[t] ELSE TransferData_new(QueueEndpoint, QueueType)
       IN /\ HandleSubmit(t, d, o, "queue", "queue_submit")
          /\ pending' = Append(pending, t)
          /\ subidx' = [subidx EXCEPT ![t] = nsub + 1]
    /\ cached' = 0
    /\ nsub' = nsub + 1
    /\ UNCHANGED <<qalive, delivered, signalled, nfut>>

\* the transfer Queue::poll_next looks at
queue_any_completed(s) ==
    IF \E i \in 1..Len(s) : hstate[s[i]] = "COMPLETED"
    THEN CHOOSE i \in 1..Len(s) :
            hstate[s[i]] = "COMPLETED" /\ \A j \in (i + 1)..Len(s) : hstate[s[j]] # "COMPLETED"
    ELSE 1

queue_front(s) == 1

\* the slots of the transfers in S after their TransferData is dropped
released(f, S, v) == [t \in Tid |-> IF t \in S THEN v ELSE f[t]]

Pending(op, t) == Outcome(op, t, "pending", "Ok", <<>>, NoObj, <<>>, <<>>)

\* Queue::poll_next: TransferHandle::poll_completion of the front transfer; a
\* ready transfer becomes the cached one, and the one cached before is dropped
QueuePoll ==
    /\ qalive = "alive"
    /\ Cardinality(callerBufs) < MaxHeld
    /\ IF pending = <<>> \/ hstate[pending[queue_front(pending)]] # "COMPLETED"
       THEN /\ last' = Pending("queue_poll", IF pending = <<>> THEN 0 ELSE pending[queue_front(pending)])
            /\ UNCHANGED <<td, variant, given, heap, callerBufs, hstate, owner, pending,
                           cached, subidx, delivered>>
       ELSE LET i == queue_front(pending)
                t == pending[i]
                r == take_completed_in(td[t], heap)
                old == IF cached = 0 THEN {} ELSE {cached}
            IN /\ td' = released([td EXCEPT ![t] = r.d], old, NoTransfer)
               /\ heap' = drop_handles_heap(old, r.heap)
               /\ callerBufs' = IF r.obj = NoObj THEN callerBufs ELSE callerBufs \cup {r.obj}
               /\ hstate' = released([hstate EXCEPT ![t] = "IDLE"], old, "none")
               /\ owner' = released(owner, old, "none")
               /\ variant' = released(variant, old, "none")
               /\ given' = released(given, old, NoObj)
               /\ subidx' = released(subidx, old, 0)
               /\ pending' = SubSeq(pending, 1, i - 1) \o SubSeq(pending, i + 1, Len(pending))
               /\ cached' = t
               /\ delivered' = Append(delivered, subidx[t])
               /\ last' = Outcome("queue_poll", t, r.outcome, r.status, <<>>, r.obj, r.data, r.pkts)
    /\ UNCHANGED <<kstate, kcancel, qalive, nsub, signalled, nfut>>

\* Queue::cancel_all: TransferHandle::cancel of every pending transfer
QueueCancelAll ==
    /\ qalive = "alive" /\ pending # <<>>
    /\ kcancel' = [t \in Tid |-> kcancel[t] \/ \E i \in 1..Len(pending) : pending[i] = t]
    /\ td' = [t \in Tid |-> IF \E i \in 1..Len(pending) : pending[i] = t
                             THEN cancel_data(td[t]) ELSE td[t]]
    /\ last' = Outcome("queue_cancel_all", 0, "ok", "Ok", cancel_each(pending, FALSE),
                       NoObj, <<>>, <<>>)
    /\ UNCHANGED <<variant, given, kstate, heap, callerBufs, hstate, owner, pending,
                   cached, qalive, subidx, nsub, delivered, signalled, nfut>>

\* impl Drop for TransferHandle, for the handles of the transfers in S: a pending
\* transfer is cancelled and left to the dispatcher, any other is freed
DropHandles(S) ==
    LET gone == {t \in S : hstate[t] # "PENDING"}
    IN /\ td' = [t \in Tid |-> IF t \in gone THEN NoTransfer
                               ELSE IF t \in S THEN cancel_data(td[t]) ELSE td[t]]
       /\ heap' = drop_handles_heap(S, heap)
       /\ hstate' = [t \in Tid |-> IF t \in gone THEN "none"
                                   ELSE IF t \in S THEN "ABANDONED" ELSE hstate[t]]
       /\ owner' = released(owner, S, "none")
       /\ variant' = released(variant, gone, "none")
       /\ given' = released(given, gone, NoObj)
       /\ subidx' = released(subidx, S, 0)
       /\ kcancel' = [t \in Tid |-> kcancel[t] \/ (t \in S /\ hstate[t] = "PENDING")]

\* impl Drop for Queue: the pending handles and the cached one
QueueDrop ==
    /\ qalive = "alive"
    /\ DropHandles({pending[i] : i \in 1..Len(pending)} \cup (IF cached = 0 THEN {} ELSE {cached}))
    /\ pending' = <<>>
    /\ cached' = 0
    /\ qalive' = "dropped"
    /\ last' = Outcome("queue_drop", 0, "ok", "Ok", cancel_each(pending, TRUE), NoObj, <<>>, <<>>)
    /\ UNCHANGED <<kstate, callerBufs, nsub, delivered, signalled, nfut>>

\* Interface::bulk_in: a new transfer, submitted, in a TransferFuture
FutureNew(o) ==
    /\ o \in callerBufs /\ o.kind = "RequestBuffer"
    /\ CanMake /\ nfut < MaxFutures
    /\ HandleSubmit(FreeTid, TransferData_new(QueueEndpoint, QueueType), o, "future", "future_new")
    /\ nfut' = nfut + 1
    /\ UNCHANGED <<pending, cached, qalive, subidx, nsub, delivered, signalled>>

\* TransferFuture::poll
FuturePoll(t) ==
    /\ owner[t] = "future" /\ hstate[t] \in {"PENDING", "COMPLETED"}
    /\ Cardinality(callerBufs) < MaxHeld
    /\ IF hstate[t] = "PENDING"
       THEN /\ last' = Pending("future_poll", t)
            /\ UNCHANGED <<td, heap, callerBufs, hstate>>
       ELSE LET r == take_completed_in(td[t], heap)
            IN /\ td' = [td EXCEPT ![t] = r.d]
               /\ heap' = r.heap
               /\ callerBufs' = IF r.obj = NoObj THEN callerBufs ELSE callerBufs \cup {r.obj}
               /\ hstate' = [hstate EXCEPT ![t] = "IDLE"]
               /\ last' = Outcome("future_poll", t, r.outcome, r.status, <<>>, r.obj, r.data, r.pkts)
    /\ UNCHANGED <<variant, given, kstate, kcancel, owner, pending, cached, qalive, subidx,
                   nsub, delivered, signalled, nfut>>

\* the future is dropped, and its TransferHandle with it
FutureDrop(t) ==
    /\ owner[t] = "future"
    /\ DropHandles({t})
    /\ last' = Outcome("future_drop", t, "ok", "Ok", cancel_each(<<t>>, TRUE), NoObj, <<>>, <<>>)
    /\ UNCHANGED <<kstate, callerBufs, pending, cached, qalive, nsub, delivered, signalled, nfut>>

\* the kernel finishes the urb of transfer t
KernelFinish(t, r) ==
    /\ kstate[t] = "inflight"
    /\ r \in HandleOutcomes(t)
    /\ td' = [td EXCEPT ![t] = kernel_complete_urb(td[t], r)]
    /\ heap' = kernel_complete_heap(td[t], heap, r)
    /\ kstate' = [kstate EXCEPT ![t] = "done"]
    /\ last' = Simple("finish", t)
    /\ UNCHANGED <<variant, given, kcancel, callerBufs, hstate, owner, pending, cached, qalive,
                   subidx, nsub, delivered, signalled, nfut>>

\* a dispatcher that reaps the urb of transfer t and notifies nobody
Dispatch_unnotified(t) ==
    /\ kstate[t] = "done"
    /\ kstate' = [kstate EXCEPT ![t] = "none"]
    /\ last' = Simple("dispatch", t)
    /\ UNCHANGED <<td, heap, variant, given, kcancel, hstate, signalled, callerBufs, owner,
                   pending, cached, qalive, subidx, nsub, delivered, nfut>>

\* the dispatcher reaps the urb of transfer t and notifies its completion: a
\* pending transfer becomes completed, an abandoned one is freed
Dispatch(t) ==
    /\ kstate[t] = "done"
    /\ kstate' = [kstate EXCEPT ![t] = "none"]
    /\ IF hstate[t] = "ABANDONED"
       THEN /\ td' = [td EXCEPT ![t] = NoTransfer]
            /\ heap' = drop_heap(td[t], heap)
            /\ hstate' = [hstate EXCEPT ![t] = "none"]
            /\ variant' = [variant EXCEPT ![t] = "none"]
            /\ given' = [given EXCEPT ![t] = NoObj]
            /\ kcancel' = [kcancel EXCEPT ![t] = FALSE]
            /\ UNCHANGED signalled
       ELSE /\ hstate' = [hstate EXCEPT ![t] = "COMPLETED"]
            /\ signalled' = IF owner[t] = "queue" THEN Append(signalled, subidx[t]) ELSE signalled
            /\ UNCHANGED <<td, heap, variant, given, kcancel>>
    /\ last' = Simple("dispatch", t)
    /\ UNCHANGED <<callerBufs, owner, pending, cached, qalive, subidx, nsub, delivered, nfut>>

\* the length of the buffers of the queue and of the futures
HandleLen == 1

Next ==
    \/ CanAlloc /\ Cardinality(callerBufs) < MaxHeld /\ NewRequestBuffer(HandleLen) /\ UNCHANGED <<hvars, dvars>>
    \/ \E o \in callerBufs : CallerReuse(o, "RequestBuffer", HandleLen) /\ UNCHANGED <<hvars, dvars>>
    \/ \E o \in callerBufs : DropBuf(o) /\ UNCHANGED <<hvars, dvars>>
    \/ QueueNew /\ UNCHANGED dvars
    \/ \E o \in callerBufs : QueueSubmit(o) /\ UNCHANGED dvars
    \/ QueuePoll /\ UNCHANGED dvars
    \/ QueueCancelAll /\ UNCHANGED dvars
    \/ QueueDrop /\ UNCHANGED dvars
    \/ \E o \in callerBufs : FutureNew(o) /\ UNCHANGED dvars
    \/ \E t \in Tid : FuturePoll(t) /\ UNCHANGED dvars
    \/ \E t \in Tid : FutureDrop(t) /\ UNCHANGED dvars
    \/ \E t \in Tid : \E r \in HandleOutcomes(t) : KernelFinish(t, r) /\ UNCHANGED dvars
    \/ \E t \in Tid : Dispatch(t) /\ UNCHANGED dvars

Spec == InitCommon /\ [][Next]_vars


\* ------------------------------------------- one queue that is polled for ever
\* The caller makes a queue, submits to it and polls it; the kernel finishes
\* the urbs in any order and the dispatcher notifies the completions.
CallerAllocates ==
    CanAlloc /\ Cardinality(callerBufs) < MaxHeld /\ NewRequestBuffer(HandleLen)
        /\ UNCHANGED <<hvars, dvars>>
CallerDrops == \E o \in callerBufs : DropBuf(o) /\ UNCHANGED <<hvars, dvars>>
CallerPolls == QueuePoll /\ UNCHANGED dvars
KernelFinishes(t) == \E r \in HandleOutcomes(t) : KernelFinish(t, r) /\ UNCHANGED dvars
Dispatches(t) == Dispatch(t) /\ UNCHANGED dvars

NextQueue ==
    \/ CallerAllocates
    \/ CallerDrops
    \/ QueueNew /\ UNCHANGED dvars
    \/ \E o \in callerBufs : QueueSubmit(o) /\ UNCHANGED dvars
    \/ CallerPolls
    \/ \E t \in Tid : KernelFinishes(t)
    \/ \E t \in Tid : Dispatches(t)

\* the kernel finishes every urb it was given and the dispatcher notifies every
\* completion; the caller keeps polling and lets go of what a poll gave it
QueueFairness ==
    /\ \A t \in Tid : WF_vars(KernelFinishes(t))
    /\ \A t \in Tid : WF_vars(Dispatches(t))
    /\ WF_vars(CallerPolls)
    /\ WF_vars(CallerDrops)

SpecQueueProgress == InitCommon /\ [][NextQueue]_vars /\ QueueFairness

\* ----------------------------------------- who keeps the backends alive
\* a TransferData that kept no reference to its device and interface
TransferData_refs_none(n) == 0

\* the strong references n TransferData hold: each has device: Arc<Device>, and
\* _interface: Some(Arc<Interface>) when it was made on an interface
TransferData_refs(n) == n

\* the strong count of the interface backend and of the device backend; the
\* interface backend holds a reference to its device
interface_strong(r) ==
    r.interfaces + r.queues + TransferData_refs(r.xfPending + r.xfCompleted + r.xfAbandoned)

device_strong(r) ==
    r.devices + (IF r.claimed THEN 1 ELSE 0)
      + TransferData_refs(r.xfPending + r.xfCompleted + r.xfAbandoned)
      + TransferData_refs(r.ctPending + r.ctCompleted + r.ctAbandoned)

\* Arc: the interface is released when its last reference is dropped, and then
\* the device is closed when its last reference is dropped
arc_drop(r) ==
    LET r1 == IF r.claimed /\ interface_strong(r) = 0 THEN [r EXCEPT !.claimed = FALSE] ELSE r
    IN IF r1.open /\ device_strong(r1) = 0 THEN [r1 EXCEPT !.open = FALSE] ELSE r1

RefStep(r) == refs' = arc_drop(r) /\ UNCHANGED <<tvars, hvars, halt, dev>>

\* the transfers there are
Transfers(r) ==
    r.xfPending + r.xfCompleted + r.xfAbandoned + r.ctPending + r.ctCompleted + r.ctAbandoned

\* DeviceInfo::open
Device_open ==
    /\ ~refs.opened
    /\ RefStep([refs EXCEPT !.opened = TRUE, !.open = TRUE, !.devices = 1])

\* #[derive(Clone)] struct Device
Device_clone ==
    /\ refs.devices > 0 /\ refs.devices < MaxRefs
    /\ RefStep([refs EXCEPT !.devices = @ + 1])

Device_drop ==
    /\ refs.devices > 0
    /\ RefStep([refs EXCEPT !.devices = @ - 1])

\* Device::claim_interface
Device_claim_interface ==
    /\ refs.devices > 0 /\ ~refs.claimed
    /\ RefStep([refs EXCEPT !.claimed = TRUE, !.interfaces = 1])

\* #[derive(Clone)] struct Interface
Interface_clone ==
    /\ refs.interfaces > 0 /\ refs.interfaces < MaxRefs
    /\ RefStep([refs EXCEPT !.interfaces = @ + 1])

Interface_drop ==
    /\ refs.interfaces > 0
    /\ RefStep([refs EXCEPT !.interfaces = @ - 1])

\* Interface::bulk_in_queue: Queue::new(self.backend.clone(), ..)
Interface_bulk_in_queue ==
    /\ refs.interfaces > 0 /\ refs.queues < MaxRefs
    /\ RefStep([refs EXCEPT !.queues = @ + 1])

\* an empty queue is dropped
Queue_drop ==
    /\ refs.queues > 0
    /\ RefStep([refs EXCEPT !.queues = @ - 1])

\* Interface::bulk_in: make_transfer, submit, TransferFuture::new
Interface_bulk_in ==
    /\ refs.interfaces > 0 /\ Transfers(refs) < MaxRefs
    /\ RefStep([refs EXCEPT !.xfPending = @ + 1])

\* Device::control_in: make_control_transfer, submit, TransferFuture::new
Device_control_in ==
    /\ refs.devices > 0 /\ Transfers(refs) < MaxRefs
    /\ RefStep([refs EXCEPT !.ctPending = @ + 1])

\* the dispatcher sees a transfer complete: one in a future is completed, an
\* abandoned one is freed
Transfer_complete(k) ==
    /\ refs[k] > 0
    /\ RefStep(CASE k = "xfPending" -> [refs EXCEPT !.xfPending = @ - 1, !.xfCompleted = @ + 1]
                 [] k = "ctPending" -> [refs EXCEPT !.ctPending = @ - 1, !.ctCompleted = @ + 1]
                 [] OTHER -> [refs EXCEPT ![k] = @ - 1])

\* a future is dropped: its transfer is abandoned when pending, freed otherwise
Future_drop(k) ==
    /\ refs[k] > 0
    /\ RefStep(CASE k = "xfPending" -> [refs EXCEPT !.xfPending = @ - 1, !.xfAbandoned = @ + 1]
                 [] k = "ctPending" -> [refs EXCEPT !.ctPending = @ - 1, !.ctAbandoned = @ + 1]
                 [] OTHER -> [refs EXCEPT ![k] = @ - 1])

NextRefs ==
    \/ Device_open
    \/ Device_clone
    \/ Device_drop
    \/ Device_claim_interface
    \/ Interface_clone
    \/ Interface_drop
    \/ Interface_bulk_in_queue
    \/ Queue_drop
    \/ Interface_bulk_in
    \/ Device_control_in
    \/ \E k \in {"xfPending", "ctPending", "xfAbandoned", "ctAbandoned"} : Transfer_complete(k)
    \/ \E k \in {"xfPending", "ctPending", "xfCompleted", "ctCompleted"} : Future_drop(k)

SpecRefs == InitCommon /\ [][NextRefs]_vars

\* ------------------------------------------------------- the device handle
Platforms == {"linux", "macos", "windows"}

\* the configuration values of the cached configuration descriptors
ConfigValues == 1..MaxConfigs
ConfigSets == UNION { [1..n -> ConfigValues] : n \in 0..MaxConfigs }

\* what a backend call may return: success or an OS error
BackendResults == {Ok(<<>>), Err("Io", ENODEV)}

DeviceStep(d) == dev' = d /\ UNCHANGED <<tvars, hvars, halt, refs>>

\* DeviceInfo::open on some platform, of a device with some configurations
OpenDevice(platform, configs, active) ==
    /\ ~dev.opened
    /\ DeviceStep([dev EXCEPT !.opened = TRUE, !.platform = platform, !.configs = configs,
                              !.active = active, !.op = "open"])

\* detach_kernel_driver that drops the backend's error
detach_kernel_driver_ignoring(platform, backend) == Ok(<<>>)

\* Device::detach_kernel_driver: the backend is called on Linux only, and its
\* error is returned with ?
detach_kernel_driver(platform, backend) ==
    IF platform = "linux" /\ ~backend.ok THEN backend ELSE Ok(<<>>)

\* Device::attach_kernel_driver
attach_kernel_driver(platform, backend) ==
    IF platform = "linux" /\ ~backend.ok THEN backend ELSE Ok(<<>>)

\* the kernel driver of the interface after the platform backend has run
backend_driver(platform, backend, driver, wanted) ==
    IF platform = "linux" /\ backend.ok THEN wanted ELSE driver

DetachKernelDriver(backend) ==
    /\ dev.opened
    /\ DeviceStep([dev EXCEPT !.op = "detach_kernel_driver", !.backend = backend,
                              !.driver = backend_driver(dev.platform, backend, @, FALSE),
                              !.result = detach_kernel_driver(dev.platform, backend)])

AttachKernelDriver(backend) ==
    /\ dev.opened
    /\ DeviceStep([dev EXCEPT !.op = "attach_kernel_driver", !.backend = backend,
                              !.driver = backend_driver(dev.platform, backend, @, TRUE),
                              !.result = attach_kernel_driver(dev.platform, backend)])

\* the platform backend of set_configuration and reset: not there on Windows
backend_unsupported(platform, backend) ==
    IF platform = "windows" THEN Err("Unsupported", 0) ELSE backend

\* Device::set_configuration
SetConfiguration(configuration, backend) ==
    /\ dev.opened
    /\ LET r == backend_unsupported(dev.platform, backend)
       IN DeviceStep([dev EXCEPT !.op = "set_configuration", !.backend = r, !.result = r,
                                 !.active = IF r.ok THEN configuration ELSE @])

\* Device::reset
Reset(backend) ==
    /\ dev.opened
    /\ LET r == backend_unsupported(dev.platform, backend)
       IN DeviceStep([dev EXCEPT !.op = "reset", !.backend = r, !.result = r])

\* active_configuration that takes the first cached configuration
active_configuration_first(configs, active) ==
    IF configs # <<>> THEN Ok(<<1, configs[1]>>) ELSE Err("NoActiveConfiguration", active)

\* Device::active_configuration: configurations().find(value == active), as the
\* position and the value of the descriptor found
active_configuration(configs, active) ==
    IF \E i \in 1..Len(configs) : configs[i] = active
    THEN LET i == CHOOSE i \in 1..Len(configs) :
                     configs[i] = active /\ \A j \in 1..(i - 1) : configs[j] # active
         IN Ok(<<i, configs[i]>>)
    ELSE Err("NoActiveConfiguration", active)

ActiveConfiguration ==
    /\ dev.opened
    /\ DeviceStep([dev EXCEPT !.op = "active_configuration",
                              !.result = active_configuration(dev.configs, dev.active)])

\* the bytes a device may answer a GET_DESCRIPTOR request with, possibly cut short
DescBytes == {0, 3, 4, 9}
Responses == UNION { [1..n -> DescBytes] : n \in 0..MaxDesc }

\* what control_in_blocking may return: the bytes received, or a transfer error
ControlResults == {Ok(b) : b \in Responses} \cup {Err("Transfer", EPIPE)}

\* the control request of Device::get_descriptor
get_descriptor_request(desc_type, desc_index, language_id) ==
    <<STANDARD_REQUEST_GET_DESCRIPTOR, desc_type * 256 + desc_index, language_id>>

\* Device::get_descriptor: a 4096 byte buffer, truncated to the length received
get_descriptor(r) ==
    IF ~r.ok THEN r
    ELSE Ok(SubSeq(r.val, 1, IF Len(r.val) < DESCRIPTOR_BUF_LEN THEN Len(r.val)
                              ELSE DESCRIPTOR_BUF_LEN))

\* validate_string_descriptor: the length byte and the type byte
validate_string_descriptor(data) ==
    Len(data) >= 2 /\ data[1] = Len(data) /\ data[2] = DESCRIPTOR_TYPE_STRING

\* from_fn(|| Some(u16::from_le_bytes([iter.next()?, iter.next()?])))
RECURSIVE from_le_pairs(_)
from_le_pairs(bytes) ==
    IF Len(bytes) < 2 THEN <<>>
    ELSE <<bytes[1] + 256 * bytes[2]>> \o from_le_pairs(SubSeq(bytes, 3, Len(bytes)))

\* the language list without the validation
supported_languages_unvalidated(r) ==
    LET data == get_descriptor(r)
    IN IF ~data.ok THEN data
       ELSE Ok(from_le_pairs(SubSeq(data.val, 3, Len(data.val))))

\* Device::get_string_descriptor_supported_languages
get_string_descriptor_supported_languages(r) ==
    LET data == get_descriptor(r)
    IN IF ~data.ok THEN data
       ELSE IF ~validate_string_descriptor(data.val) THEN Err("InvalidData", 0)
       ELSE Ok(from_le_pairs(SubSeq(data.val, 3, Len(data.val))))

\* decode_string_descriptor: the UTF-16 units of a valid descriptor
decode_string_descriptor(data) ==
    IF ~validate_string_descriptor(data) THEN Err("Invalid", 0)
    ELSE Ok(from_le_pairs(SubSeq(data, 3, Len(data))))

\* get_string_descriptor that decodes whatever came
get_string_descriptor_unchecked(r) ==
    LET data == get_descriptor(r)
    IN IF ~data.ok THEN data
       ELSE Ok(from_le_pairs(SubSeq(data.val, 3, Len(data.val))))

\* Device::get_string_descriptor
get_string_descriptor(r) ==
    LET data == get_descriptor(r)
    IN IF ~data.ok THEN data
       ELSE LET s == decode_string_descriptor(data.val)
            IN IF s.ok THEN s ELSE Err("InvalidData", 0)

GetDescriptor(desc_type, desc_index, language_id, r) ==
    /\ dev.opened
    /\ DeviceStep([dev EXCEPT !.op = "get_descriptor", !.backend = r,
                              !.request = get_descriptor_request(desc_type, desc_index, language_id),
                              !.result = get_descriptor(r)])

GetStringDescriptorSupportedLanguages(r) ==
    /\ dev.opened
    /\ DeviceStep([dev EXCEPT !.op = "get_string_descriptor_supported_languages", !.backend = r,
                              !.request = get_descriptor_request(DESCRIPTOR_TYPE_STRING, 0, 0),
                              !.result = get_string_descriptor_supported_languages(r)])

GetStringDescriptor(desc_index, language_id, r) ==
    /\ dev.opened
    /\ DeviceStep([dev EXCEPT !.op = "get_string_descriptor", !.backend = r,
                              !.request = get_descriptor_request(DESCRIPTOR_TYPE_STRING,
                                                                 desc_index, language_id),
                              !.result = get_string_descriptor(r)])

\* US English, the language of almost every device
US_ENGLISH == 1033

NextDevice ==
    \/ \E p \in Platforms, cs \in ConfigSets, a \in 0..MaxConfigs : OpenDevice(p, cs, a)
    \/ \E b \in BackendResults : DetachKernelDriver(b)
    \/ \E b \in BackendResults : AttachKernelDriver(b)
    \/ \E c \in 0..MaxConfigs, b \in BackendResults : SetConfiguration(c, b)
    \/ \E b \in BackendResults : Reset(b)
    \/ ActiveConfiguration

SpecDevice == InitCommon /\ [][NextDevice]_vars

\* the descriptor requests, on a device of any platform
DESCRIPTOR_TYPE_CONFIGURATION == 2

NextDescriptors ==
    \/ \E p \in Platforms : OpenDevice(p, <<>>, 0)
    \/ \E ty \in {DESCRIPTOR_TYPE_CONFIGURATION, DESCRIPTOR_TYPE_STRING}, r \in ControlResults :
          GetDescriptor(ty, 0, 0, r)
    \/ \E r \in ControlResults : GetStringDescriptorSupportedLanguages(r)
    \/ \E r \in ControlResults : GetStringDescriptor(1, US_ENGLISH, r)

SpecDescriptors == InitCommon /\ [][NextDescriptors]_vars

\* --------------------------------------------- enumeration (macOS, IOKit)
\* The integer properties probe_device requires of a device, in the order it
\* reads them, and those it requires of an interface.
RequiredProps ==
    <<"locationID", "USB Address", "idVendor", "idProduct", "bcdDevice",
      "bDeviceClass", "bDeviceSubClass", "bDeviceProtocol">>
InterfaceProps ==
    <<"bInterfaceNumber", "bInterfaceClass", "bInterfaceSubClass", "bInterfaceProtocol">>

\* Option<T>: None is <<>>, Some(v) is <<v>>
None == <<>>
Some(v) == <<v>>

\* get_integer_property: Some when the registry search finds the property and
\* it is a number (the values themselves are left out: 1 stands for any)
get_integer_property(props, property) ==
    IF props[property] = "number" THEN Some(1) ELSE None

\* map_speed
map_speed(speed) ==
    CASE speed = 0 -> Some("Low")
      [] speed = 1 -> Some("Full")
      [] speed = 2 -> Some("High")
      [] speed = 3 -> Some("Super")
      [] speed \in {4, 5} -> Some("SuperPlus")
      [] OTHER -> None

\* get_integer_property(&device, "Device Speed").and_then(map_speed)
speed_of(speed) == IF speed = None THEN None ELSE map_speed(speed[1])

\* the closure of flat_map: an InterfaceInfo, or None when the child lacks one
\* of the integer properties
probe_interface(child) ==
    IF \E i \in DOMAIN InterfaceProps :
           get_integer_property(child.props, InterfaceProps[i]) = None
    THEN None
    ELSE Some([interface_number |-> child.number, interface_string |-> child.name])

RECURSIVE flat_map_interfaces(_)
flat_map_interfaces(children) ==
    IF children = <<>> THEN <<>>
    ELSE probe_interface(Head(children)) \o flat_map_interfaces(Tail(children))

\* get_children(&device).map_or(Vec::new(), ..)
interfaces_of(children) ==
    IF children.ok THEN flat_map_interfaces(children.val) ELSE <<>>

\* the DeviceInfo of a service that has what is required
device_info(device) ==
    [registry_id |-> device.rid[1],
     speed |-> speed_of(device.speed),
     manufacturer_string |-> device.vendor,
     interfaces |-> interfaces_of(device.children)]

\* probe_device with a ? on the speed as well
probe_device_requiring_speed(device) ==
    IF device.rid = None THEN None
    ELSE IF \E i \in DOMAIN RequiredProps :
                get_integer_property(device.props, RequiredProps[i]) = None
    THEN None
    ELSE IF speed_of(device.speed) = None THEN None
    ELSE Some(device_info(device))

\* probe_device: None when the registry id or a required property is missing
probe_device(device) ==
    IF device.rid = None THEN None
    ELSE IF \E i \in DOMAIN RequiredProps :
                get_integer_property(device.props, RequiredProps[i]) = None
    THEN None
    ELSE Some(device_info(device))

\* Iterator::filter_map(probe_device)
RECURSIVE filter_map_probe(_)
filter_map_probe(services) ==
    IF services = <<>> THEN <<>>
    ELSE probe_device(Head(services)) \o filter_map_probe(Tail(services))

\* list_devices: usb_service_iter()?.filter_map(probe_device)
list_devices(iter) ==
    IF iter.ok THEN Ok(filter_map_probe(iter.val)) ELSE iter

\* the properties of an entry that has them all, and those with one of them
\* missing or, for idVendor, not a number
AllNumbers(names) == [p \in {names[i] : i \in DOMAIN names} |-> "number"]
PropsOf(names) ==
    {AllNumbers(names)}
      \cup {[AllNumbers(names) EXCEPT ![names[i]] = "absent"] : i \in DOMAIN names}
      \cup {[AllNumbers(names) EXCEPT ![names[3]] = "other"]}

GoodChild(n) == [props |-> AllNumbers(InterfaceProps), number |-> n, name |-> None]
BadChild(n) ==
    [props |-> [AllNumbers(InterfaceProps) EXCEPT !["bInterfaceClass"] = "absent"],
     number |-> n, name |-> None]

\* the services IOKit may list: without a registry id, with all the required
\* properties or all but one, and each of them with a known, an unknown or
\* no speed, with or without strings, and with children that cannot be
\* listed, that are all well-formed, or of which one lacks a property
ServiceKinds ==
    { [rid |-> o.rid, props |-> o.props, speed |-> x.speed, vendor |-> x.vendor,
       children |-> x.children] :
        o \in {[rid |-> None, props |-> AllNumbers(RequiredProps)]}
                 \cup {[rid |-> Some(0), props |-> p] : p \in PropsOf(RequiredProps)},
        x \in { [speed |-> None, vendor |-> None, children |-> Err("Io", EIO)],
                [speed |-> Some(2), vendor |-> Some("vendor"), children |-> Ok(<<GoodChild(0)>>)],
                [speed |-> Some(6), vendor |-> Some("vendor"),
                 children |-> Ok(<<BadChild(0), GoodChild(1)>>)],
                [speed |-> Some(5), vendor |-> None,
                 children |-> Ok(<<GoodChild(0), BadChild(1)>>)] } }

\* before list_devices: whether usb_service_iter will fail, and an I/O
\* registry with no USB device yet
InitEnumeration ==
    /\ td = [t \in Tid |-> NoTransfer]
    /\ variant = [t \in Tid |-> "none"]
    /\ given = [t \in Tid |-> NoObj]
    /\ kstate = [t \in Tid |-> "none"]
    /\ kcancel = [t \in Tid |-> FALSE]
    /\ heap = [p \in Ptr |-> NoAlloc]
    /\ callerBufs = {}
    /\ last = NoOutcome
    /\ hstate = [t \in Tid |-> "none"]
    /\ owner = [t \in Tid |-> "none"]
    /\ pending = <<>>
    /\ cached = 0
    /\ qalive = "none"
    /\ subidx = [t \in Tid |-> 0]
    /\ nsub = 0
    /\ delivered = <<>>
    /\ signalled = <<>>
    /\ nfut = 0
    /\ halt = "clear"
    /\ refs = NoRefs
    /\ dev \in { [NoDevice EXCEPT !.platform = "macos", !.backend = b] :
                    b \in {Err("Other", 0), Ok(<<>>)} }

\* a USB device appears in the I/O registry, after those usb_service_iter
\* yields already; the registry id of a service that has one is its place
RegisterService(kind) ==
    /\ dev.op = "none"
    /\ dev.backend.ok
    /\ Len(dev.backend.val) < MaxServices
    /\ DeviceStep([dev EXCEPT !.backend =
            Ok(Append(@.val, [kind EXCEPT !.rid = IF @ = None THEN None
                                                 ELSE Some(Len(dev.backend.val) + 1)]))])

\* list_devices()
ListDevices ==
    /\ dev.op = "none"
    /\ DeviceStep([dev EXCEPT !.op = "list_devices", !.result = list_devices(dev.backend)])

NextEnumeration ==
    \/ \E kind \in ServiceKinds : RegisterService(kind)
    \/ ListDevices

SpecEnumeration == InitEnumeration /\ [][NextEnumeration]_vars

\* ================================================================ claims

CancelAllStep == last'.op = "queue_cancel_all"

\* C11: cancel on a pending transfer, however often and however interleaved
\* with the completion, makes one cancel request per call and changes neither
\* the control block (buffer pointer, capacity), the heap, the state of the
\* transfer nor the urb as the kernel holds it; a repeated cancel changes
\* nothing at all, and no submission is signalled complete twice.
C11_CancelIdempotent ==
    [][/\ CancelAllStep =>
             /\ td' = td /\ heap' = heap /\ hstate' = hstate /\ kstate' = kstate
             /\ last'.os = [i \in 1..Len(pending) |-> "cancel_urb"]
             /\ (\A i \in 1..Len(pending) : kcancel[pending[i]]) => kcancel' = kcancel
       /\ \A i, j \in 1..Len(signalled') : i # j => signalled'[i] # signalled'[j]]_vars

\* cancel_all is called again on a queue whose front transfer was cancelled
\* before and has already completed as cancelled, the next one still in flight
C11_Witness ==
    /\ last.op = "queue_cancel_all"
    /\ Len(pending) = 2
    /\ hstate[pending[1]] = "COMPLETED" /\ td[pending[1]].urb.status = -ENOENT
    /\ kstate[pending[2]] = "inflight" /\ kcancel[pending[2]]
    /\ td[pending[2]].urb.buffer # NULL

\* C1: whatever the order in which the completions are signalled, the k-th
\* completion the queue delivers is the k-th transfer submitted to it: none is
\* skipped and none is delivered before an earlier one.
C1_QueueDeliversInSubmissionOrder ==
    /\ \A k \in 1..Len(delivered) : delivered[k] = k
    /\ \A i \in 1..Len(pending) : subidx[pending[i]] = Len(delivered) + i

\* three transfers, signalled second, first, third, and all three delivered
C1_Witness ==
    /\ signalled = <<2, 1, 3>>
    /\ delivered = <<1, 2, 3>>
    /\ last.op = "queue_poll" /\ last.outcome = "ok"

\* the transfer is with the kernel or its completion waits for the dispatcher
InFlight(t) == kstate[t] \in {"inflight", "done"}

\* C3: while a transfer is submitted and the dispatcher has not yet seen it
\* complete, its control block and its buffer are not freed, whether the
\* transfer, its future or its queue has been dropped meanwhile.
C3_NoFreeWhilePending ==
    \A t \in Tid :
        InFlight(t) =>
            /\ td[t].live
            /\ td[t].urb.buffer # NULL
            /\ heap[td[t].urb.buffer].st = "live"
            /\ \A o \in callerBufs : o.ptr # td[t].urb.buffer

\* a queue was dropped with two transfers in flight: both are abandoned, and
\* the buffers are still allocated
C3_Witness ==
    /\ last.op = "queue_drop"
    /\ \E t, u \in Tid :
          /\ t # u
          /\ hstate[t] = "ABANDONED" /\ hstate[u] = "ABANDONED"
          /\ kstate[t] = "inflight" /\ kstate[u] = "done"
          /\ heap[td[t].urb.buffer].st = "live" /\ heap[td[u].urb.buffer].st = "live"

FutureDropStep == last'.op = "future_drop"

\* C4: dropping a future whose transfer is pending asks the kernel to cancel
\* it exactly once; dropping one whose transfer has completed asks nothing.
C4_DropCancelsExactlyOnce ==
    [][FutureDropStep =>
          LET t == last'.t
          IN /\ hstate[t] = "PENDING" =>
                   /\ last'.os = <<"cancel_urb">>
                   /\ kcancel'[t]
                   /\ hstate'[t] = "ABANDONED"
             /\ hstate[t] # "PENDING" => last'.os = <<>>]_vars

\* a pending future was dropped and one cancel went to the kernel
C4_Witness ==
    /\ last.op = "future_drop"
    /\ last.os = <<"cancel_urb">>
    /\ hstate[last.t] = "ABANDONED"
    /\ kstate[last.t] = "inflight"
TakeStep == last'.op = "take_completed"
SubmitStep == last'.op = "submit"

\* ---- C2 ----------------------------------------------------------------
\* the allocation in a control block is live, no buffer object of the caller
\* refers to it and no other transfer holds it
OwnedAlone ==
    \A t \in Tid :
        (td[t].live /\ td[t].urb.buffer # NULL) =>
            /\ heap[td[t].urb.buffer].st = "live"
            /\ \A o \in callerBufs : o.ptr # td[t].urb.buffer
            /\ \A u \in Tid \ {t} : ~(td[u].live /\ td[u].urb.buffer = td[t].urb.buffer)

\* an allocation held by a transfer reaches the caller only in a take_completed
\* of that transfer
ReturnedOnlyByTake ==
    \A t \in Tid :
        (td[t].live /\ td[t].urb.buffer # NULL
            /\ \E o \in callerBufs' : o.ptr = td[t].urb.buffer)
        => (TakeStep /\ last'.t = t /\ last'.outcome = "ok")

\* C2: from submit until the completion is taken, the buffer allocation is
\* owned by the transfer alone (live, not referred to by any buffer object of
\* the caller), and it returns to the caller only through take_completed.
C2_BufferOwnedByTransfer == [][OwnedAlone' /\ ReturnedOnlyByTake]_vars

C2_Witness ==
    \E t \in Tid :
        /\ kstate[t] = "inflight" /\ td[t].urb.buffer # NULL
        /\ variant[t] = "RequestBuffer" /\ given[t].ptr = td[t].urb.buffer
        /\ callerBufs = {}

\* ---- C5 ----------------------------------------------------------------
\* C5: a completion is reaped exactly once: take_completed leaves the control
\* block without buffer (pointer null, capacity 0), and a take_completed on a
\* transfer that holds no buffer fails the non-null assertion and hands
\* nothing to the caller.
C5_ReapedExactlyOnce ==
    [][TakeStep =>
         LET t == last'.t
         IN /\ td'[t].urb.buffer = NULL /\ td'[t].capacity = 0
            /\ td[t].urb.buffer = NULL =>
                  (last'.outcome = "null" /\ last'.obj = NoObj
                     /\ callerBufs' = callerBufs /\ heap' = heap)
            /\ last'.obj # NoObj => td[t].urb.buffer = last'.obj.ptr]_vars

C5_Witness ==
    /\ last.op = "take_completed" /\ last.outcome = "null"
    /\ \E o \in callerBufs : o.ptr = given[last.t].ptr

\* ---- C6 ----------------------------------------------------------------
\* C6: for every buffer variant, the buffer handed back by take_completed is
\* the allocation given to submit: same pointer, same capacity, whatever the
\* status and the actual length.
C6_SameAllocationReturned ==
    (last.op = "take_completed" /\ last.outcome = "ok") =>
        /\ last.obj.ptr = given[last.t].ptr
        /\ last.obj.cap = given[last.t].cap

\* ---- C7 ----------------------------------------------------------------
ControlInTaken ==
    last.op = "take_completed" /\ last.outcome = "ok" /\ variant[last.t] = "ControlIn"

NoSetupBytes(data) == \A i \in 1..Len(data) : data[i][1] \notin {"setup_in", "setup_out"}

\* C7 as stated: the payload length is the reported actual length minus 8.
C7_LengthMinusSetup ==
    ControlInTaken =>
        /\ Len(last.data) = td[last.t].urb.actual_length - SETUP_PACKET_SIZE
        /\ NoSetupBytes(last.data)

\* C7, amended: the payload length equals the reported actual length (which
\* counts the data stage only) and the payload holds no setup-packet byte; on
\* a control transfer it is the bytes the device wrote after the setup
\* packet, in order.
C7_PayloadIsDataStage ==
    ControlInTaken =>
        /\ Len(last.data) = td[last.t].urb.actual_length
        /\ last.obj.len = td[last.t].urb.actual_length
        /\ NoSetupBytes(last.data)
        /\ td[last.t].urb.ep_type = USBDEVFS_URB_TYPE_CONTROL =>
              \A i \in 1..Len(last.data) : last.data[i] = Cell("dev", 0, i)

C7_Witness ==
    /\ ControlInTaken /\ Len(last.data) = MaxLen
    /\ td[last.t].urb.ep_type = USBDEVFS_URB_TYPE_CONTROL

\* ---- C8 ----------------------------------------------------------------
IsoTaken ==
    last.op = "take_completed" /\ last.outcome = "ok"
        /\ variant[last.t] = "IsochronousRequest"

\* the index of the j-th packet whose status is 0
OkPacket(descs, j) ==
    CHOOSE k \in 1..Len(descs) :
        /\ descs[k].status = 0
        /\ Cardinality({i \in 1..(k - 1) : descs[i].status = 0}) = j - 1

\* C8: a completed isochronous transfer with N packets returns at most N
\* entries: one per packet whose status is 0, in packet order, none for the
\* others, and each entry is as long as its packet's actual_length.
C8_IsoEntriesPerOkPacket ==
    IsoTaken =>
        LET descs == td[last.t].urb.iso_frame_desc
            ok == {k \in 1..Len(descs) : descs[k].status = 0}
        IN /\ Len(descs) = given[last.t].npkts
           /\ Len(last.pkts) <= Len(descs)
           /\ Len(last.pkts) = Cardinality(ok)
           /\ \A j \in 1..Len(last.pkts) :
                 Len(last.pkts[j]) = descs[OkPacket(descs, j)].actual_length

C8_Witness ==
    /\ IsoTaken
    /\ Len(last.pkts) = 1 /\ Len(last.pkts[1]) > 0
    /\ Len(td[last.t].urb.iso_frame_desc) = 2
    /\ td[last.t].urb.iso_frame_desc[1].status # 0
    /\ td[last.t].urb.iso_frame_desc[1].actual_length # td[last.t].urb.iso_frame_desc[2].actual_length

\* ---- C9 ----------------------------------------------------------------
WrongDirection(kind, ep) ==
    \/ kind \in {"RequestBuffer", "IsochronousRequest"} /\ ~IsIn(ep)
    \/ kind = "OutBytes" /\ IsIn(ep)

Rejected(t) ==
    /\ last'.outcome = "panic" /\ last'.os = <<>>
    /\ td'[t] = td[t] /\ td'[t].urb.buffer = NULL
    /\ kstate' = kstate

\* C9: a RequestBuffer or an isochronous request on an endpoint with bit 7
\* clear, and an OUT byte vector on an endpoint with bit 7 set, are rejected by
\* submit before the buffer is installed and before anything reaches the
\* kernel: the control block is unchanged and holds no buffer.
C9_DirectionEnforced ==
    [][(SubmitStep /\ WrongDirection(last'.obj.kind, td[last'.t].urb.endpoint))
          => Rejected(last'.t)]_vars

C9_Witness ==
    /\ last.op = "submit" /\ last.outcome = "panic"
    /\ last.obj.kind = "RequestBuffer"
    /\ ~IsIn(td[last.t].urb.endpoint)
    /\ td[last.t].urb.ep_type = USBDEVFS_URB_TYPE_BULK

\* ---- C10 ---------------------------------------------------------------
RequiredTypes(kind) ==
    CASE kind \in {"OutBytes", "RequestBuffer"} ->
            {USBDEVFS_URB_TYPE_BULK, USBDEVFS_URB_TYPE_INTERRUPT}
      [] kind = "IsochronousRequest" -> {USBDEVFS_URB_TYPE_ISO}
      [] kind \in {"ControlIn", "ControlOut"} -> {USBDEVFS_URB_TYPE_CONTROL}

\* C10: a submission of a buffer variant on a transfer whose endpoint type is
\* not the one the table requires is rejected and never reaches the kernel.
C10_TypeEnforced ==
    (last.op = "submit" /\ td[last.t].urb.ep_type \notin RequiredTypes(last.obj.kind))
        => (last.outcome = "panic" /\ last.os = <<>>)

QueuePollReady == last'.op = "queue_poll" /\ last'.outcome # "pending"

\* C12: cancel_all takes no transfer out of the pending sequence; a transfer
\* leaves it only when poll_next delivers it from the front (or the queue is
\* dropped), so the transfers pending at cancel_all are delivered in submission
\* order, and one the kernel ended with ENOENT is delivered as Cancelled.
C12_CancelAllKeepsOrder ==
    [][/\ CancelAllStep => pending' = pending /\ cached' = cached /\ delivered' = delivered
       /\ pending' # pending =>
             \/ last'.op = "queue_submit" /\ pending = SubSeq(pending', 1, Len(pending))
             \/ last'.op = "queue_drop"
             \/ /\ QueuePollReady
                /\ pending' = Tail(pending)
                /\ last'.t = Head(pending)
                /\ delivered' = Append(delivered, Len(delivered) + 1)
                /\ subidx[Head(pending)] = Len(delivered) + 1
       /\ QueuePollReady =>
             /\ last'.outcome = "ok"
             /\ td[last'.t].urb.status = -ENOENT => last'.status = "Cancelled"
             /\ td[last'.t].urb.status = 0 => last'.status = "Ok"]_vars

\* two transfers were cancelled, the kernel ended the second first, and both
\* were delivered as Cancelled in submission order
C12_Witness ==
    /\ last.op = "queue_poll" /\ last.status = "Cancelled"
    /\ delivered = <<1, 2>> /\ signalled = <<2, 1>>
    /\ td[last.t].urb.status = -ENOENT
    /\ \E t \in Tid : t # last.t /\ td[t].live /\ td[t].urb.status = -ENOENT

\* C13: the device is open as long as a Device clone, an interface, a queue or a
\* transfer (in a future or abandoned in flight) exists, and the interface is
\* claimed as long as one of its clones, queues or transfers exists; once
\* closed or released, nothing refers to them.
C13_BackendsOutliveReferrers ==
    /\ (refs.devices + refs.interfaces + refs.queues + Transfers(refs) > 0) => refs.open
    /\ (refs.interfaces + refs.queues + refs.xfPending + refs.xfCompleted + refs.xfAbandoned > 0)
          => refs.claimed
    /\ (refs.xfPending + refs.xfAbandoned > 0) => refs.open /\ refs.claimed
    /\ (refs.ctPending + refs.ctAbandoned > 0) => refs.open

\* every Device and Interface handle is gone, and an abandoned transfer on the
\* interface is still in flight
C13_Witness ==
    /\ refs.devices = 0 /\ refs.interfaces = 0 /\ refs.queues = 0
    /\ refs.xfAbandoned = 1 /\ Transfers(refs) = 1
    /\ refs.open /\ refs.claimed

DeviceCall(op) == dev'.op = op /\ dev' # dev

\* the operations a platform lacks
Lacks(platform, op) ==
    \/ op \in {"detach_kernel_driver", "attach_kernel_driver"} /\ platform # "linux"
    \/ op \in {"set_configuration", "reset"} /\ platform = "windows"

\* C14 as stated: on a platform lacking the operation, the call returns Unsupported.
C14_UnsupportedReported ==
    (dev.op \in {"detach_kernel_driver", "attach_kernel_driver", "set_configuration", "reset"}
       /\ Lacks(dev.platform, dev.op))
        => (~dev.result.ok /\ dev.result.err = "Unsupported")

\* C14 as amended: set_configuration and reset return Unsupported on a platform
\* lacking them and change nothing; detach_kernel_driver and attach_kernel_driver
\* return Ok(()) without effect on a platform other than Linux, and on Linux
\* return the error of the backend or, on success, have their effect.
C14_UnsupportedOrNoEffect ==
    [][/\ (DeviceCall("set_configuration") \/ DeviceCall("reset")) /\ Lacks(dev.platform, dev'.op)
             => /\ ~dev'.result.ok /\ dev'.result.err = "Unsupported"
                /\ dev'.active = dev.active /\ dev'.driver = dev.driver
       /\ (DeviceCall("detach_kernel_driver") \/ DeviceCall("attach_kernel_driver"))
             => IF dev.platform # "linux"
                THEN dev'.result = Ok(<<>>) /\ dev'.driver = dev.driver
                ELSE /\ dev'.result = dev'.backend
                     /\ dev'.result.ok => dev'.driver = (dev'.op = "attach_kernel_driver")
                     /\ ~dev'.result.ok => dev'.driver = dev.driver]_vars

\* off Linux, detach_kernel_driver returned Ok(()) and the driver is still attached
C14_Witness ==
    /\ dev.op = "detach_kernel_driver" /\ dev.platform = "macos"
    /\ dev.result = Ok(<<>>) /\ dev.driver

\* C15: active_configuration returns the first cached configuration whose value
\* is the active value the backend reports, when there is one, and otherwise the
\* no-active-configuration error carrying that value; never another descriptor.
C15_ActiveConfigurationMatches ==
    dev.op = "active_configuration" =>
        LET matches == {i \in 1..Len(dev.configs) : dev.configs[i] = dev.active}
        IN IF matches # {}
           THEN /\ dev.result.ok
                /\ dev.result.val[2] = dev.active
                /\ dev.result.val[1] \in matches
                /\ \A i \in matches : dev.result.val[1] <= i
           ELSE /\ ~dev.result.ok
                /\ dev.result.err = "NoActiveConfiguration"
                /\ dev.result.code = dev.active

\* the active configuration is the second of two cached ones, and it is returned
C15_Witness ==
    /\ dev.op = "active_configuration"
    /\ dev.configs = <<1, 2>> /\ dev.active = 2
    /\ dev.result = Ok(<<2, 2>>)

\* the bytes the device sent are fewer than their first byte declares
ShortRead(b) == Len(b) >= 1 /\ Len(b) < b[1]

\* C16: the supported-languages call requests string descriptor 0 with language
\* 0; bytes that are not a conforming string descriptor (first byte the length,
\* second byte 3) give InvalidData; otherwise the bytes after the header are
\* returned pairwise as little-endian 16-bit language IDs, in order.
C16_SupportedLanguages ==
    dev.op = "get_string_descriptor_supported_languages" =>
        /\ dev.request = <<STANDARD_REQUEST_GET_DESCRIPTOR, 768, 0>>
        /\ dev.backend.ok =>
              LET b == dev.backend.val
              IN IF Len(b) >= 2 /\ b[1] = Len(b) /\ b[2] = 3
                 THEN /\ dev.result.ok
                      /\ dev.result.val =
                            [k \in 1..((Len(b) - 2) \div 2) |-> b[2 * k + 1] + 256 * b[2 * k + 2]]
                 ELSE dev.result = Err("InvalidData", 0)
        /\ ~dev.backend.ok => dev.result = dev.backend

\* the descriptor [4, 3, 9, 4] gives the one language 0x0409
C16_Witness ==
    /\ dev.op = "get_string_descriptor_supported_languages"
    /\ dev.backend = Ok(<<4, 3, 9, 4>>)
    /\ dev.result = Ok(<<US_ENGLISH>>)

\* C17 as stated: get_descriptor reports InvalidData when fewer bytes came than
\* the first byte declares.
C17_ShortReadIsInvalidData ==
    (dev.op = "get_descriptor" /\ dev.backend.ok /\ ShortRead(dev.backend.val))
        => dev.result = Err("InvalidData", 0)

\* C17 as amended: get_descriptor returns the bytes it received as they are;
\* the two string-descriptor calls built on it report InvalidData when fewer
\* bytes came than the first byte declares.
C17_ShortStringIsInvalidData ==
    /\ (dev.op = "get_descriptor" /\ dev.backend.ok) => dev.result = Ok(dev.backend.val)
    /\ (dev.op \in {"get_string_descriptor", "get_string_descriptor_supported_languages"}
           /\ dev.backend.ok /\ ShortRead(dev.backend.val))
          => dev.result = Err("InvalidData", 0)

\* a string descriptor declaring 4 bytes came with 3
C17_Witness ==
    /\ dev.op = "get_string_descriptor"
    /\ dev.backend = Ok(<<4, 3, 9>>)
    /\ dev.result = Err("InvalidData", 0)

\* the completion of the transfer was taken, and the urb had ended with status e
TakenWith(E) ==
    /\ last.op = "take_completed" /\ last.outcome = "ok"
    /\ Abs(td[last.t].urb.status) \in E

\* C18 as stated: an urb ended by a cancel (ENOENT, ECONNRESET) or by the OS
\* shutting down (ESHUTDOWN) surfaces as Cancelled.
C18_CancelledSurfaces ==
    TakenWith({ENOENT, ECONNRESET, ESHUTDOWN}) => last.status = "Cancelled"

\* C18 as amended: an urb that ended because it was discarded or unlinked
\* (ENOENT, ECONNRESET, ETIMEDOUT) surfaces as Cancelled and as nothing else,
\* also after an explicit cancel; one ended with ESHUTDOWN surfaces as Disconnected.
C18_CancelledOrDisconnected ==
    /\ TakenWith({ENOENT, ECONNRESET, ETIMEDOUT}) => last.status = "Cancelled"
    /\ TakenWith({ESHUTDOWN}) => last.status = "Disconnected"
    /\ (last.op = "take_completed" /\ last.outcome = "ok" /\ last.status = "Cancelled")
          => TakenWith({ENOENT, ECONNRESET, ETIMEDOUT})

\* the transfer was cancelled, the kernel ended it with ENOENT, and it was
\* delivered as Cancelled
C18_Witness ==
    /\ TakenWith({ENOENT})
    /\ kcancel[last.t]
    /\ last.status = "Cancelled"

\* C19: a submit hands the control block to the kernel exactly once; taking a
\* completion, whatever its status, makes no call to the kernel and gives the
\* caller the status of the urb; an urb gets to the kernel in a submit only.
C19_NeverRetries ==
    [][/\ SubmitStep => last'.os = IF last'.outcome = "ok" THEN <<"submit_urb">> ELSE <<>>
       /\ TakeStep =>
             /\ last'.os = <<>>
             /\ kstate' = kstate
             /\ last'.status = IF td[last'.t].urb.status = 0 THEN "Ok"
                                ELSE errno_to_transfer_error(Abs(td[last'.t].urb.status))
       /\ \A t \in Tid : (kstate'[t] = "inflight" /\ kstate[t] # "inflight")
             => SubmitStep /\ last'.t = t]_vars

\* a completion with a protocol error was taken: the transfer is idle and
\* nothing is with the kernel
C19_Witness ==
    /\ last.op = "take_completed" /\ last.outcome = "ok"
    /\ last.status = "Fault"
    /\ last.os = <<>>
    /\ kstate[last.t] = "none" /\ Idle(last.t)

\* C20: a bulk IN completion with status Stall still returns the allocation
\* that was submitted, and leaves the transfer idle; a submit on the bulk IN
\* endpoint is accepted whether or not the endpoint has stalled before.
C20_StallReturnsBuffer ==
    [][/\ (TakeStep /\ last'.status = "Stall" /\ td[last'.t].urb.buffer # NULL) =>
             /\ last'.outcome = "ok"
             /\ last'.obj.ptr = given[last'.t].ptr /\ last'.obj.cap = given[last'.t].cap
             /\ heap'[last'.obj.ptr].st = "live"
             /\ last'.obj \in callerBufs'
             /\ td'[last'.t].live /\ td'[last'.t].urb.buffer = NULL
       /\ SubmitStep => last'.outcome = "ok" /\ kstate'[last'.t] = "inflight"]_vars

\* the endpoint stalled, clear_halt was called, and the one buffer there ever
\* was has been submitted again and completed with Ok
C20_Witness ==
    /\ halt = "cleared"
    /\ last.op = "take_completed" /\ last.status = "Ok" /\ last.outcome = "ok"
    /\ last.obj.ptr = 1 /\ heap[1].st = "live"
    /\ \A p \in Ptr \ {1} : heap[p].st = "unused"
    /\ Len(last.data) = MaxLen

\* ---- C21 ---------------------------------------------------------------
\* a bulk OUT transfer whose last submit was given an empty vector
ZeroLengthOut(t) ==
    /\ variant[t] = "OutBytes" /\ given[t].len = 0
    /\ ~IsIn(td[t].urb.endpoint) /\ td[t].urb.ep_type = USBDEVFS_URB_TYPE_BULK

\* C21: an empty vector, of any capacity, submitted on a bulk OUT endpoint is
\* handed to the kernel with buffer_length 0; when the kernel reports success
\* its take_completed passes both assertions and returns a ResponseBuffer over
\* the vector, with status Ok and actual length 0.
C21_ZeroLengthOut ==
    [][/\ (SubmitStep /\ last'.obj.kind = "OutBytes" /\ last'.obj.len = 0
             /\ ~IsIn(td[last'.t].urb.endpoint)) =>
            /\ last'.outcome = "ok" /\ last'.os = <<"submit_urb">>
            /\ td'[last'.t].urb.buffer_length = 0
            /\ td'[last'.t].urb.buffer = last'.obj.ptr
            /\ td'[last'.t].capacity = last'.obj.cap
       /\ (TakeStep /\ ZeroLengthOut(last'.t) /\ td[last'.t].urb.buffer # NULL
             /\ td[last'.t].urb.status = 0) =>
            /\ td[last'.t].urb.actual_length = 0
            /\ last'.outcome = "ok" /\ last'.status = "Ok"
            /\ last'.obj = Obj("ResponseBuffer", given[last'.t].ptr, 0, given[last'.t].cap, 0, 0)
            /\ last'.obj \in callerBufs']_vars

\* an empty vector of capacity 0 went out on the bulk OUT endpoint and came
\* back as a ResponseBuffer with status Ok
C21_Witness ==
    /\ last.op = "take_completed" /\ last.outcome = "ok" /\ last.status = "Ok"
    /\ ZeroLengthOut(last.t)
    /\ last.obj.kind = "ResponseBuffer" /\ last.obj.len = 0 /\ last.obj.cap = 0

\* ---- C22 ---------------------------------------------------------------
HandleSubmitStep == last'.op \in {"queue_submit", "future_new"}
PollStep == last'.op \in {"queue_poll", "future_poll"}

\* C22: a transfer gets to the kernel in its submit, the kernel signals only
\* what it was given, only the dispatcher makes a pending transfer completed
\* and only after the kernel has signalled it; a poll yields a payload only
\* for a completed transfer and returns pending, changing nothing, otherwise.
C22_CompletionAfterSignal ==
    [][/\ \A t \in Tid :
             /\ (hstate'[t] = "PENDING" /\ hstate[t] # "PENDING") =>
                    /\ HandleSubmitStep /\ last'.t = t
                    /\ kstate[t] = "none" /\ kstate'[t] = "inflight"
             /\ (kstate'[t] = "inflight" /\ kstate[t] # "inflight") =>
                    HandleSubmitStep /\ last'.t = t
             /\ (kstate'[t] = "done" /\ kstate[t] # "done") =>
                    kstate[t] = "inflight" /\ last'.op = "finish" /\ last'.t = t
             /\ (hstate'[t] = "COMPLETED" /\ hstate[t] # "COMPLETED") =>
                    /\ last'.op = "dispatch" /\ last'.t = t
                    /\ hstate[t] = "PENDING" /\ kstate[t] = "done"
             /\ (hstate[t] = "PENDING" /\ hstate'[t] # "PENDING") =>
                    last'.op \in {"dispatch", "queue_drop", "future_drop"}
             /\ (PollStep /\ last'.t = t /\ last'.outcome # "pending") =>
                    hstate[t] = "COMPLETED" /\ kstate[t] = "none"
             /\ (PollStep /\ last'.t = t /\ hstate[t] # "COMPLETED") =>
                    /\ last'.outcome = "pending" /\ last'.obj = NoObj /\ last'.data = <<>>
                    /\ callerBufs' = callerBufs /\ td' = td /\ hstate' = hstate
       /\ (PollStep /\ last'.t = 0) => last'.outcome = "pending" /\ callerBufs' = callerBufs]_vars

\* the queue has delivered its first transfer, and its poll returned pending
\* for the second one, which the kernel still has
C22_Witness ==
    /\ last.op = "queue_poll" /\ last.outcome = "pending"
    /\ last.t \in Tid /\ kstate[last.t] = "inflight" /\ hstate[last.t] = "PENDING"
    /\ delivered = <<1>> /\ signalled = <<1>>

\* ---- C24 ---------------------------------------------------------------
\* the packet descriptors of urb u are n fresh ones of length len
FreshDescriptors(u, n, len) ==
    /\ u.number_of_packets = n
    /\ u.iso_frame_desc = [i \in 1..n |-> [length |-> len, actual_length |-> 0, status |-> 0]]

\* C24: every accepted isochronous submit, the first one or one on a transfer
\* that completed before, leaves exactly number_of_packets descriptors in the
\* urb, each with length = requested, actual_length = 0 and status = 0, and
\* their lengths add up to buffer_length = requested * number_of_packets; they
\* stay so until the kernel completes the urb.
C24_IsoDescriptorsFresh ==
    [][/\ (SubmitStep /\ last'.obj.kind = "IsochronousRequest" /\ last'.outcome = "ok") =>
            LET u == td'[last'.t].urb
                o == last'.obj
            IN /\ FreshDescriptors(u, o.npkts, o.requested)
               /\ SumLen(u.iso_frame_desc) = u.buffer_length
               /\ u.buffer_length = o.requested * o.npkts
               /\ u.actual_length = 0
       /\ \A t \in Tid :
            (kstate'[t] = "inflight" /\ variant'[t] = "IsochronousRequest") =>
                FreshDescriptors(td'[t].urb, given'[t].npkts, given'[t].requested)]_vars

\* an isochronous transfer that had completed with an error status was
\* submitted again, with the most packets
C24_Witness ==
    /\ last.op = "submit" /\ last.outcome = "ok" /\ last.obj.kind = "IsochronousRequest"
    /\ td[last.t].urb.status # 0
    /\ last.obj.npkts = MaxPackets /\ last.obj.requested >= 1
    /\ FreshDescriptors(td[last.t].urb, MaxPackets, last.obj.requested)

\* ---- C25 ---------------------------------------------------------------
\* C25: a handle or queue submit is made on a transfer that holds no buffer
\* and that the kernel does not have: a transfer made for this submit, or the
\* one the queue got back from a poll; a control block that holds a buffer
\* gets no other buffer and is not handed to the kernel again before its
\* completion was taken.
C25_SubmitOnlyWhileIdle ==
    [][/\ HandleSubmitStep =>
            LET t == last'.t
            IN /\ kstate[t] = "none"
               /\ \/ ~td[t].live
                  \/ Idle(t) /\ hstate[t] = "IDLE" /\ cached = t /\ last'.op = "queue_submit"
               /\ last'.op = "future_new" => ~td[t].live
               /\ td'[t].urb.buffer = last'.obj.ptr /\ td'[t].urb.buffer # NULL
       /\ \A t \in Tid :
            /\ (td[t].live /\ td[t].urb.buffer # NULL /\ td'[t].live) =>
                   td'[t].urb.buffer \in {td[t].urb.buffer, NULL}
            /\ (td[t].live /\ td[t].urb.buffer # NULL) =>
                   ~(HandleSubmitStep /\ last'.t = t)
            /\ (td[t].live /\ td[t].urb.buffer # NULL /\ td'[t].urb.buffer = NULL /\ td'[t].live) =>
                   PollStep /\ last'.t = t]_vars

\* the queue submitted again on the transfer it had got back from a poll
C25_Witness ==
    /\ last.op = "queue_submit" /\ last.outcome = "ok"
    /\ delivered = <<1>> /\ nsub = 2
    /\ subidx[last.t] = 2 /\ last.t = 1
    /\ kstate[last.t] = "inflight" /\ td[last.t].urb.buffer # NULL

\* ---- C26 ---------------------------------------------------------------
\* the number of data bytes the caller put behind the setup packet
DataCells(bytes) == Cardinality({i \in 1..Len(bytes) : bytes[i][1] = "host"})

\* the length the buffer of a transfer of variant v is meant to have: g is the
\* buffer object or the request given to the submit, c its allocation
IntendedLen(v, g, c) ==
    CASE v = "OutBytes" -> g.len
      [] v = "RequestBuffer" -> g.requested
      [] v = "IsochronousRequest" -> g.requested * g.npkts
      [] v = "ControlIn" -> SETUP_PACKET_SIZE + g.requested
      [] v = "ControlOut" -> SETUP_PACKET_SIZE + g.len

\* the length take_completed makes a vector of, from what the kernel reported
ReportedLen(v, u) ==
    CASE v = "RequestBuffer" -> u.actual_length
      [] v = "ControlIn" -> SETUP_PACKET_SIZE + u.actual_length
      [] v = "IsochronousRequest" -> u.buffer_length
      [] OTHER -> 0

ClaimedStatus(s) ==
    IF s = 0 THEN "Ok"
    ELSE IF Abs(s) \in {ENODEV, ESHUTDOWN} THEN "Disconnected"
    ELSE IF Abs(s) = EPIPE THEN "Stall"
    ELSE IF Abs(s) \in {ENOENT, ECONNRESET, ETIMEDOUT} THEN "Cancelled"
    ELSE IF Abs(s) \in {EPROTO, EILSEQ, EOVERFLOW, ECOMM, ETIME} THEN "Fault"
    ELSE "Unknown"

\* C27: urb_status gives a status for every urb status: Ok for 0, and for a
\* non-zero s the kind of the errno |s| (Disconnected, Stall, Cancelled,
\* Fault, or Unknown for every other value); s and -s give the same status.
C27_StatusIgnoresSign ==
    last.op = "urb_status" =>
        LET u == td[last.t].urb
        IN /\ last.status = ClaimedStatus(u.status)
           /\ last.status = urb_status([u EXCEPT !.status = -u.status])
           /\ u.status # 0 => last.status # "Ok"

\* the positive ETIMEDOUT was classified as Cancelled
C27_Witness ==
    /\ last.op = "urb_status"
    /\ td[last.t].urb.status = ETIMEDOUT
    /\ last.status = "Cancelled"

\* ---- C28 ---------------------------------------------------------------
\* wLength: bytes 6 and 7 of the setup packet at the front of the buffer
wLength(bytes) == bytes[7][2] + 256 * bytes[8][2]

\* C28: an accepted ControlIn or ControlOut submit leaves a buffer of
\* 8 + length bytes whose setup packet has wLength = length, the requested
\* length or the number of data bytes behind the setup packet; a ControlOut
\* with more data than 16 bits can count is rejected with the control block
\* still empty and nothing handed to the kernel.
C28_WLengthIsDataLength ==
    [][/\ (SubmitStep /\ last'.obj.kind = "ControlIn") =>
            LET u == td'[last'.t].urb
            IN /\ last'.outcome = "ok"
               /\ u.buffer_length = SETUP_PACKET_SIZE + last'.obj.requested
               /\ wLength(heap'[u.buffer].bytes) = last'.obj.requested
       /\ (SubmitStep /\ last'.obj.kind = "ControlOut" /\ last'.obj.len <= U16_MAX) =>
            LET u == td'[last'.t].urb
            IN /\ last'.outcome = "ok"
               /\ u.buffer_length = SETUP_PACKET_SIZE + last'.obj.len
               /\ wLength(heap'[u.buffer].bytes) = last'.obj.len
               /\ DataCells(heap'[u.buffer].bytes) = last'.obj.len
       /\ (SubmitStep /\ last'.obj.kind = "ControlOut" /\ last'.obj.len > U16_MAX) =>
            /\ last'.outcome = "panic" /\ last'.os = <<>>
            /\ td' = td /\ td'[last'.t].urb.buffer = NULL
            /\ kstate' = kstate
            /\ LiveAllocs' = LiveAllocs]_vars

\* a ControlOut with 65536 data bytes was rejected, and nothing is in the
\* control block or with the kernel
C28_Witness ==
    /\ last.op = "submit" /\ last.obj.kind = "ControlOut" /\ last.obj.len = U16_MAX + 1
    /\ last.outcome = "panic"
    /\ td[last.t].urb.buffer = NULL /\ kstate[last.t] = "none"

\* ---- C29 ---------------------------------------------------------------
\* the service has a registry id and every required property as a number
Probed(service) ==
    /\ service.rid # None
    /\ \A i \in DOMAIN RequiredProps : service.props[RequiredProps[i]] = "number"

\* the children that have every interface property, in their order
RECURSIVE WellFormed(_)
WellFormed(children) ==
    IF children = <<>> THEN <<>>
    ELSE (IF \A i \in DOMAIN InterfaceProps : Head(children).props[InterfaceProps[i]] = "number"
          THEN <<Head(children).number>> ELSE <<>>) \o WellFormed(Tail(children))

\* C29: list_devices yields, in the iterator's order, one DeviceInfo for each
\* service that has a registry id and all eight required integer properties,
\* and none for any other service; a missing or unknown speed and missing
\* strings are absent in the DeviceInfo, children that cannot be listed give
\* no interfaces, and a child that lacks an interface property is left out of
\* the interfaces alone.
C29_EnumerationSkipsOffending ==
    (dev.op = "list_devices" /\ dev.backend.ok) =>
        LET services == dev.backend.val
            kept == {i \in DOMAIN services : Probed(services[i])}
            place(i) == Cardinality({j \in kept : j <= i})
            infos == dev.result.val
        IN /\ dev.result.ok
           /\ Len(infos) = Cardinality(kept)
           /\ \A i \in kept :
                 LET service == services[i]
                     info == infos[place(i)]
                 IN /\ info.registry_id = service.rid[1]
                    /\ service.speed \notin {Some(n) : n \in 0..5} => info.speed = None
                    /\ service.speed = Some(2) => info.speed = Some("High")
                    /\ info.manufacturer_string = service.vendor
                    /\ [k \in DOMAIN info.interfaces |-> info.interfaces[k].interface_number]
                          = (IF service.children.ok THEN WellFormed(service.children.val)
                             ELSE <<>>)

\* of two services the first lacks idProduct and is skipped; the second has
\* an unknown speed, and a child without bInterfaceClass before a good one,
\* and is listed with no speed and with the good interface alone
C29_Witness ==
    /\ dev.op = "list_devices" /\ dev.backend.ok
    /\ Len(dev.backend.val) = 2
    /\ dev.backend.val[1].rid # None /\ dev.backend.val[1].props["idProduct"] = "absent"
    /\ dev.backend.val[2].speed = Some(6)
    /\ dev.backend.val[2].children = Ok(<<BadChild(0), GoodChild(1)>>)
    /\ Len(dev.result.val) = 1
    /\ dev.result.val[1].registry_id = 2
    /\ dev.result.val[1].speed = None
    /\ Len(dev.result.val[1].interfaces) = 1
    /\ dev.result.val[1].interfaces[1].interface_number = 1

\* ---- C30 ---------------------------------------------------------------
\* the bytes the device sent in packet k of the transfer, n of them
PacketPayload(k, n) == [i \in 1..n |-> Cell("dev", k, i)]

\* C30: the entry returned for packet k of a completed isochronous transfer
\* holds the bytes the device wrote at the start of slot k of the buffer (the
\* slot that begins at the sum of the descriptor lengths of the packets
\* before k), whether or not packets before k were omitted; and as no packet
\* holds more than its descriptor's length, taking the completion never
\* fails on a range outside the buffer.
C30_IsoSlotsFixed ==
    /\ IsoTaken =>
          LET descs == td[last.t].urb.iso_frame_desc
          IN \A j \in 1..Len(last.pkts) :
                LET k == OkPacket(descs, j)
                IN /\ descs[k].actual_length <= descs[k].length
                   /\ SumLen(SubSeq(descs, 1, k - 1)) = (k - 1) * given[last.t].requested
                   /\ last.pkts[j] = PacketPayload(k, descs[k].actual_length)
    /\ (last.op = "take_completed" /\ variant[last.t] = "IsochronousRequest")
          => last.outcome # "range"

\* the first of two packets failed after the device had sent part of it, and
\* the only entry returned is the second packet, in full
C30_Witness ==
    /\ IsoTaken
    /\ Len(td[last.t].urb.iso_frame_desc) = 2
    /\ td[last.t].urb.iso_frame_desc[1].status # 0
    /\ td[last.t].urb.iso_frame_desc[1].actual_length = 1
    /\ td[last.t].urb.iso_frame_desc[2].status = 0
    /\ td[last.t].urb.iso_frame_desc[2].length = MaxLen
    /\ last.pkts = <<PacketPayload(2, MaxLen)>>

\* ---- C31 ---------------------------------------------------------------
\* who holds allocation p: the caller's buffer objects over it and the live
\* transfers whose control block points to it
Holders(p) ==
    Cardinality({o \in callerBufs : o.ptr = p})
      + Cardinality({t \in Tid : td[t].live /\ td[t].urb.buffer = p})

\* C31: every allocation installed in a transfer is released exactly once:
\* while it is live exactly one owner holds it (the transfer's control block,
\* or a buffer object of the caller after take_completed handed it back),
\* once freed nobody holds it, and none is freed twice; so none is left live
\* without an owner to release it, and into_vec leaves no second owner.
C31_ReleasedExactlyOnce ==
    \A p \in Ptr :
        /\ heap[p].st # "corrupt"
        /\ heap[p].st = "live" => Holders(p) = 1
        /\ heap[p].st \in {"freed", "unused"} => Holders(p) = 0

\* ---- C32 ---------------------------------------------------------------
\* the k-th submission to the queue was delivered
Delivered(k) == \E i \in 1..Len(delivered) : delivered[i] = k

\* the completion of every transfer pending before place i was notified
EarlierCompleted(i) == \A j \in 1..(i - 1) : hstate[pending[j]] = "COMPLETED"

\* C32: with a kernel that finishes every urb, a dispatcher that notifies every
\* completion and a caller that keeps polling, every transfer submitted to the
\* queue is eventually delivered, and none twice; a transfer whose completion
\* was notified is delivered once those submitted before it are completed
\* too; and a poll that delivers takes the front transfer alone out of the
\* pending sequence and keeps its storage for the next submission.
C32_QueueProgress ==
    /\ \A k \in 1..MaxSubmits : (nsub >= k) ~> Delivered(k)
    /\ \A k \in 1..MaxSubmits :
          (\E i \in 1..Len(pending) :
               subidx[pending[i]] = k /\ hstate[pending[i]] = "COMPLETED" /\ EarlierCompleted(i))
              ~> Delivered(k)
    /\ [][/\ \A i, j \in 1..Len(delivered') : i # j => delivered'[i] # delivered'[j]
          /\ (last'.op = "queue_poll" /\ pending # <<>>) =>
                (delivered' # delivered <=> hstate[Head(pending)] = "COMPLETED")
          /\ delivered' # delivered =>
                /\ QueuePollReady
                /\ delivered' = Append(delivered, subidx[Head(pending)])
                /\ pending' = Tail(pending)
                /\ cached' = Head(pending) /\ td'[cached'].live /\ hstate'[cached'] = "IDLE"
          /\ (pending' # pending /\ Len(pending') <= Len(pending)) => delivered' # delivered]_vars

\* three transfers were submitted, the third completed first and stayed parked
\* while the first was still in flight, and all were delivered
C32_Witness ==
    /\ Len(signalled) = MaxSubmits /\ signalled[1] = MaxSubmits
    /\ Len(delivered) = MaxSubmits /\ delivered[MaxSubmits] = MaxSubmits
    /\ pending = <<>> /\ cached # 0

====
